---------------------------- MODULE Spec2Model ----------------------------
(***************************************************************************)
(* A model of the runtime of graphql-freeze: the request encoder           *)
(* (runtime/src/request-encoder.ts), the response decoder and the codec    *)
(* data model (runtime index: decodeObject, decodeList, decodeNull, ...)   *)
(* and the request/response flow of the generated client                   *)
(* (codegen/resources/client.template).                                    *)
(*                                                                         *)
(* JavaScript values are tagged records.  An object is the sequence of its *)
(* own entries in Object.entries order (insertion order: no key of an      *)
(* object of the model is an integer-like string), an array the sequence   *)
(* of its elements.  Codecs, args maps and encoders are plain objects: a   *)
(* lookup codec[name] finds their own members and those every object       *)
(* inherits from Object.prototype.  A thrown Error is a record             *)
(* [kind, key]: kind names the message of the throw statement, key the     *)
(* field, argument or key the message quotes; a TypeError thrown by the    *)
(* language itself has the kind "TypeError".                               *)
(***************************************************************************)
EXTENDS Integers, Sequences, FiniteSets, TLC

VARIABLES
    pc,         \* "idle", or the operation that ran last
    op,         \* operationType handed to encodeRequest
    request,    \* the selection (or, for a method call, the method's inputs)
    codec,      \* name of the root codec
    encoding,   \* the GraphQLRequest instance of the latest call
    result,     \* outcome of the latest encode call
    value,      \* the wire value handed to the decoder
    decoded,    \* outcome of the latest decode (or input encode) call
    memo,       \* history: one earlier encodeRequest call and its outcome
    walk,       \* call stack of a traversal in progress, frame by frame
    delivered   \* what onReceived of a subscription has been called with

vars ==
    <<pc, op, request, codec, encoding, result, value, decoded, memo, walk,
      delivered>>

----------------------------------------------------------------------------
(* Bounds of the explored inputs.                                          *)

MaxFields == 2
MaxArgs == 2
MaxCalls == 3
MaxElems == 2
MaxDepth == 3
MaxNumber == 12
MaxHour == 23
MaxMessages == 3

----------------------------------------------------------------------------
(* JavaScript values.                                                      *)

Num(n) == [t |-> "number", n |-> n]
Str(s) == [t |-> "string", s |-> s]
Bool(b) == [t |-> "boolean", b |-> b]
Null == [t |-> "null"]
Undefined == [t |-> "undefined"]
\* an array has its elements and its length
Arr(e) == [t |-> "array", e |-> e, length |-> Len(e)]
Obj(e) == [t |-> "object", e |-> e]
\* A moment.js value, the domain side of the readme's LocalDate scalar: a
\* date and an hour of the day.
MomentAt(d, h) == [t |-> "moment", d |-> d, h |-> h]
\* moment("2024-05-01"): the start of the day
Moment(d) == MomentAt(d, 0)

\* Object(p) of a primitive p: a Number, String or Boolean object
Boxed(p) == [t |-> "boxed", p |-> p]

\* typeof v
TypeOf(v) ==
    IF v.t \in {"null", "array", "object", "moment", "boxed"} THEN "object"
    ELSE v.t

\* Array.isArray(v)
IsArray(v) == v.t = "array"

\* v[i] for an array v (i is 0-based); undefined beyond its length
Index(v, i) ==
    IF v.t = "array" /\ i + 1 <= Len(v.e) THEN v.e[i + 1] ELSE Undefined

\* the own enumerable entries of a string: its characters under their
\* indices
Characters(s) ==
    [i \in 1..Len(s) |-> <<ToString(i - 1), Str(SubSeq(s, i, i))>>]

\* Object.entries(v) of a value that is not null or undefined: the entries
\* of an object, the elements of an array and the characters of a string
\* under their indices; a number or a boolean has none
RECURSIVE Entries(_)
Entries(v) ==
    CASE v.t = "object" -> v.e
      [] v.t = "array" -> [i \in 1..Len(v.e) |-> <<ToString(i - 1), v.e[i]>>]
      [] v.t = "string" -> Characters(v.s)
      [] v.t = "boxed" -> Entries(v.p)
      [] OTHER -> <<>>

\* Object.entries(null) and Object.entries(undefined) throw a TypeError
EntriesThrows(v) == v.t \in {"null", "undefined"}

\* the names every plain object inherits from Object.prototype
ObjectPrototype ==
    {"constructor", "hasOwnProperty", "isPrototypeOf", "propertyIsEnumerable",
     "toLocaleString", "toString", "valueOf", "__proto__",
     "__defineGetter__", "__defineSetter__", "__lookupGetter__",
     "__lookupSetter__"}

\* Object.prototype[name]: a function (for __proto__ the prototype itself).
\* It has no property decode, codec, args, type or encode: read as a field
\* descriptor its optional members are undefined.
Inherited(name) ==
    [inherited |-> name, decode |-> Undefined, codec |-> <<>>, args |-> <<>>]

IsInherited(member) == "inherited" \in DOMAIN member

\* o[name] for a plain object o held as a record of its own members: the own
\* member, else the one inherited from Object.prototype, else undefined
Get(o, name) ==
    IF name \in DOMAIN o THEN o[name]
    ELSE IF name \in ObjectPrototype THEN Inherited(name)
    ELSE Undefined

\* `${v}` throws a TypeError when v is an object whose own toString is not
\* a function (the values of the model hold no function): the inherited
\* valueOf returns the object, which is no primitive
TemplateThrows(v) ==
    v.t = "object" /\ \E i \in 1..Len(v.e) : v.e[i][1] = "toString"

\* Array.prototype.join
RECURSIVE Join(_, _)
Join(parts, sep) ==
    IF parts = <<>> THEN ""
    ELSE IF Len(parts) = 1 THEN parts[1]
    ELSE parts[1] \o sep \o Join(Tail(parts), sep)

----------------------------------------------------------------------------
(* Errors.                                                                 *)

NoError == [kind |-> "none", key |-> ""]
Err(kind, key) == [kind |-> kind, key |-> key]

----------------------------------------------------------------------------
(* Scalars (client.template appScalars; readme LocalDate).                 *)

\* scalar(codec): the pair is returned as it is given
scalar(c) == c

\* the scalars of the generated client, and the LocalDate of the readme; a
\* function is named by what it does
appScalars ==
    [ID |-> scalar([decode |-> "input", encode |-> "input"]),
     Int |-> scalar([decode |-> "input", encode |-> "input"]),
     String |-> scalar([decode |-> "input", encode |-> "input"]),
     Boolean |-> scalar([decode |-> "input", encode |-> "input"]),
     Float |-> scalar([decode |-> "input", encode |-> "input"]),
     LocalDate |-> scalar([decode |-> "moment", encode |-> "format"])]

\* (mutation) the identity functions turn a number into its digits
Apply_Digits(f, v) ==
    CASE f = "input" ->
            [err |-> NoError,
             value |-> IF v.t = "number" THEN Str(ToString(v.n)) ELSE v]
      [] f = "moment" ->
            [err |-> NoError,
             value |-> IF v.t = "string" THEN Moment(v.s)
                       ELSE Moment("Invalid date")]
      [] f = "format" ->
            IF v.t = "moment" THEN [err |-> NoError, value |-> Str(v.d)]
            ELSE [err |-> Err("TypeError", "LocalDate"), value |-> Undefined]

\* f(v) for the functions of appScalars:
\*   input => input
\*   stringFromJsonResponse => moment(stringFromJsonResponse)
\*   momentToBeSent => momentToBeSent.format("yyyy-MM-DD"), a TypeError when
\*   the value has no format method
Apply(f, v) ==
    CASE f = "input" -> [err |-> NoError, value |-> v]
      [] f = "moment" ->
            [err |-> NoError,
             value |-> IF v.t = "string" THEN Moment(v.s)
                       ELSE Moment("Invalid date")]
      [] f = "format" ->
            IF v.t = "moment" THEN [err |-> NoError, value |-> Str(v.d)]
            ELSE [err |-> Err("TypeError", "LocalDate"), value |-> Undefined]

\* scalar.encode(v) of the named scalar
ScalarEncode(name, v) == Apply(appScalars[name].encode, v)

\* scalar.decode(v) of the named scalar
ScalarDecode(name, v) == Apply(appScalars[name].decode, v).value

----------------------------------------------------------------------------
(* Codecs: Record<string, CodecField>.  A field descriptor's optional      *)
(* members are sequences of length 0 (undefined) or 1; the sub-codec       *)
(* supplier `codec: () => Codec` is the name of a codec, resolved at       *)
(* traversal time, so that codecs may refer to each other in cycles.       *)

\* decoders, as the generated codec composes them
DScalar(s) == [k |-> "scalar", s |-> s]
DObject(c) == [k |-> "object", c |-> c]
DList(d) == [k |-> "list", of |-> d]
DNull(d) == [k |-> "null", of |-> d]

Arg(type, scalarName) == [type |-> type, encode |-> scalarName]

Field(decode, sub, args) == [decode |-> decode, codec |-> sub, args |-> args]

QueryCodec ==
    [ getUser |-> Field(DObject("User"), <<"User">>,
                        <<[id |-> Arg("Int", "Int"),
                           since |-> Arg("LocalDate", "LocalDate")]>>),
      me |-> Field(DNull(DObject("User")), <<"User">>, <<>>),
      version |-> Field(DScalar("String"), <<>>, <<>>),
      count |-> Field(DScalar("Int"), <<>>, <<[id |-> Arg("ID", "ID")]>>) ]

UserCodec ==
    [ name |-> Field(DScalar("String"), <<>>, <<>>),
      email |-> Field(DScalar("String"), <<>>, <<>>),
      friend |-> Field(DNull(DObject("User")), <<"User">>,
                       <<[id |-> Arg("Int", "Int")]>>),
      friends |-> Field(DNull(DList(DObject("User"))), <<"User">>, <<>>) ]

MutationCodec ==
    [ setName |-> Field(DObject("User"), <<"User">>,
                        <<[name |-> Arg("String", "String")]>>) ]

SubscriptionCodec ==
    [ version |-> Field(DScalar("String"), <<>>, <<>>),
      userChanged |-> Field(DNull(DObject("User")), <<"User">>,
                            <<[id |-> Arg("Int", "Int")]>>) ]

Codecs ==
    [Query |-> QueryCodec, User |-> UserCodec, Mutation |-> MutationCodec,
     Subscription |-> SubscriptionCodec]

\* descriptor.codec(): the supplier is invoked only when a nested value is met
SubCodec(descriptor) == Codecs[descriptor.codec[1]]

----------------------------------------------------------------------------
(* The request encoder: class GraphQLRequest.                              *)

\* (mutation) the instance of the previous call is used again
SharedGraphQLRequest == encoding

\* new GraphQLRequest(): variables = [], variableCounter = 1
NewGraphQLRequest == [variables |-> <<>>, variableCounter |-> 1]

\* (mutation) the counter is read and never advanced
newVariableName_NoIncrement(st) ==
    [name |-> "v" \o ToString(st.variableCounter), st |-> st]

\* newVariableName(): `v${this.variableCounter++}`
newVariableName(st) ==
    [name |-> "v" \o ToString(st.variableCounter),
     st |-> [st EXCEPT !.variableCounter = @ + 1]]

\* a call that threw: the instance keeps what it had recorded
Threw(kind, key, st) == [err |-> Err(kind, key), text |-> "", st |-> st]
Returned(text, st) == [err |-> NoError, text |-> text, st |-> st]

\* (mutation) only null is filtered out, undefined is encoded
NonNullEntries_NullOnly(entries) ==
    SelectSeq(entries, LAMBDA e : e[2].t # "null")

\* The .filter of encodeFunction: the entries whose value is not null or
\* undefined.
RECURSIVE NonNullEntries(_)
NonNullEntries(entries) ==
    IF entries = <<>> THEN <<>>
    ELSE IF entries[1][2].t \in {"null", "undefined"}
         THEN NonNullEntries(Tail(entries))
         ELSE <<entries[1]>> \o NonNullEntries(Tail(entries))

\* this.variables.push({name, type, value}) with the name newVariableName()
\* gave; the fragment `${argName}: $${variableName}` is returned
PushVariable(fresh, argName, type, v) ==
    Returned(argName \o ": $" \o fresh.name,
             [fresh.st EXCEPT !.variables =
                 Append(@, [name |-> fresh.name, type |-> type, value |-> v])])

\* the body of the .map of encodeFunction, for an argument the args map knows
EncodedArgument(st, argName, encodeArg, enc) ==
    IF enc.err # NoError THEN [err |-> enc.err, text |-> "", st |-> st]
    ELSE PushVariable(newVariableName(st), argName, encodeArg.type, enc.value)

\* encodeArgs[argName] is looked up; an inherited member is not undefined
\* and has no encode: encodeArg.encode(argValue) throws a TypeError
encodeArgument(st, argName, argValue, encodeArgs) ==
    IF Get(encodeArgs, argName) = Undefined
    THEN Threw("UnknownArgument", argName, st)
    ELSE IF IsInherited(Get(encodeArgs, argName))
         THEN Threw("TypeError", argName, st)
    ELSE EncodedArgument(st, argName, encodeArgs[argName],
                         ScalarEncode(encodeArgs[argName].encode, argValue))

\* The .map of encodeFunction over the filtered entries, left to right: each
\* argument is looked up, encoded, given a fresh variable name and recorded.
RECURSIVE encodeArguments(_, _, _, _)
RECURSIVE ArgumentsAfter(_, _, _, _)
ArgumentsAfter(r, entries, encodeArgs, acc) ==
    IF r.err # NoError THEN [err |-> r.err, input |-> acc, st |-> r.st]
    ELSE encodeArguments(r.st, Tail(entries), encodeArgs, Append(acc, r.text))

encodeArguments(st, entries, encodeArgs, acc) ==
    IF entries = <<>> THEN [err |-> NoError, input |-> acc, st |-> st]
    ELSE ArgumentsAfter(encodeArgument(st, entries[1][1], entries[1][2], encodeArgs),
                        entries, encodeArgs, acc)

RECURSIVE encodeObject(_, _, _)
RECURSIVE encodeField(_, _, _, _)
RECURSIVE encodeFunction(_, _, _, _, _)
RECURSIVE encodeFunctionRequest(_, _, _, _)
RECURSIVE encodeEntries(_, _, _, _)
RECURSIVE EntriesAfter(_, _, _, _)

\* `${prefix} ${sub}` once the nested object is encoded
Prefixed(prefix, sub) ==
    IF sub.err # NoError THEN sub
    ELSE Returned(prefix \o " " \o sub.text, sub.st)

\* field, or `${field}(${input.join(", ")})` when there are arguments
CallText(field, input) ==
    IF input = <<>> THEN field ELSE field \o "(" \o Join(input, ", ") \o ")"

\* encodeFunction after its arguments a were encoded: the dispatch on
\* fieldRequest
encodeFunctionRequest(field, fieldRequest, encoder, a) ==
    IF a.err # NoError THEN [err |-> a.err, text |-> "", st |-> a.st]
    ELSE IF TypeOf(fieldRequest) = "number"
         THEN Returned(CallText(field, a.input), a.st)
    ELSE IF TypeOf(fieldRequest) = "object"
         THEN IF encoder.codec = <<>>
              THEN Threw("MissingSubCodec", field, a.st)
              ELSE Prefixed(CallText(field, a.input),
                            encodeObject(a.st, fieldRequest, SubCodec(encoder)))
    ELSE Threw("InvalidSelectionShape", field, a.st)

\* encodeFunction(field, params, fieldRequest, encoder)
encodeFunction(st, field, params, fieldRequest, encoder) ==
    IF encoder.args = <<>> THEN Threw("MissingArgsCodec", field, st)
    ELSE IF EntriesThrows(params) THEN Threw("TypeError", field, st)
    ELSE encodeFunctionRequest(field, fieldRequest, encoder,
             encodeArguments(st, NonNullEntries(Entries(params)),
                             encoder.args[1], <<>>))

\* encodeField(field, value, codec)
encodeField(st, field, fieldValue, descriptor) ==
    IF TypeOf(fieldValue) = "number" THEN Returned(field, st)
    ELSE IF IsArray(fieldValue)
         THEN encodeFunction(st, field, Index(fieldValue, 0),
                             Index(fieldValue, 1), descriptor)
    ELSE IF descriptor.codec = <<>> THEN Threw("MissingSubCodec", field, st)
    ELSE IF TypeOf(fieldValue) = "object"
         THEN Prefixed(field, encodeObject(st, fieldValue, SubCodec(descriptor)))
    ELSE Threw("InvalidSelectionShape", field, st)

\* the .map of encodeObject over Object.entries(obj), left to right, and the
\* .join(" ")
EntriesAfter(r, entries, c, acc) ==
    IF r.err # NoError THEN r
    ELSE encodeEntries(r.st, Tail(entries), c, Append(acc, r.text))

\* codec[fieldName] is looked up: a name inherited from Object.prototype is
\* found, and the inherited member is handed to encodeField as descriptor
encodeEntries(st, entries, c, acc) ==
    IF entries = <<>> THEN Returned(Join(acc, " "), st)
    ELSE IF Get(c, entries[1][1]) = Undefined
         THEN Threw("UnknownField", entries[1][1], st)
    ELSE EntriesAfter(encodeField(st, entries[1][1], entries[1][2],
                                  Get(c, entries[1][1])),
                      entries, c, acc)

\* `{ ${request} }`
Braced(r) ==
    IF r.err # NoError THEN r ELSE Returned("{ " \o r.text \o " }", r.st)

\* encodeObject(obj, codec)
encodeObject(st, obj, c) ==
    IF obj.t # "null" /\ TypeOf(obj) = "object"
    THEN Braced(encodeEntries(st, Entries(obj), c, <<>>))
    ELSE Threw("ExpectedObject", "", st)

\* (mutation) the declarations lack the $ of a variable
variablesSupplyList_NoDollar(st) ==
    IF Len(st.variables) = 0 THEN ""
    ELSE "(" \o Join([i \in 1..Len(st.variables) |->
                        st.variables[i].name \o ": " \o st.variables[i].type],
                     ", ") \o ")"

\* variablesSupplyList()
variablesSupplyList(st) ==
    IF Len(st.variables) = 0 THEN ""
    ELSE "(" \o Join([i \in 1..Len(st.variables) |->
                        "$" \o st.variables[i].name \o ": "
                            \o st.variables[i].type], ", ") \o ")"

\* Object.assign(a, {[name]: value}): a key already present keeps its place
\* and takes the new value
Assign(entries, name, v) ==
    IF \E i \in 1..Len(entries) : entries[i][1] = name
    THEN [i \in 1..Len(entries) |->
            IF entries[i][1] = name THEN <<name, v>> ELSE entries[i]]
    ELSE Append(entries, <<name, v>>)

RECURSIVE AssignAll(_, _)
AssignAll(entries, pairs) ==
    IF pairs = <<>> THEN entries
    ELSE AssignAll(Assign(entries, pairs[1][1], pairs[1][2]), Tail(pairs))

\* (mutation) the mapping is keyed by the variable's type
variablesJsonObject_ByType(st) ==
    IF Len(st.variables) = 0 THEN Undefined
    ELSE Obj(AssignAll(<<>>, [i \in 1..Len(st.variables) |->
                 <<st.variables[i].type, st.variables[i].value>>]))

\* variablesJsonObject()
variablesJsonObject(st) ==
    IF Len(st.variables) = 0 THEN Undefined
    ELSE Obj(AssignAll(<<>>, [i \in 1..Len(st.variables) |->
                 <<st.variables[i].name, st.variables[i].value>>]))

\* (mutation) without variables the mapping is an empty object
EncodedRequest_EmptyMapping(operationType, encodedObject) ==
    IF encodedObject.err # NoError
    THEN [ok |-> FALSE, err |-> encodedObject.err, query |-> "",
          variables |-> Undefined, st |-> encodedObject.st]
    ELSE [ok |-> TRUE, err |-> NoError,
          query |-> operationType \o variablesSupplyList(encodedObject.st)
                       \o " " \o encodedObject.text,
          variables |-> IF encodedObject.st.variables = <<>> THEN Obj(<<>>)
                        ELSE variablesJsonObject(encodedObject.st),
          st |-> encodedObject.st]

\* encodeRequest(operationType, request, codec) once encodeObject has run on
\* the instance: the query text and the variables, or the error thrown
EncodedRequest(operationType, encodedObject) ==
    IF encodedObject.err # NoError
    THEN [ok |-> FALSE, err |-> encodedObject.err, query |-> "",
          variables |-> Undefined, st |-> encodedObject.st]
    ELSE [ok |-> TRUE, err |-> NoError,
          query |-> operationType \o variablesSupplyList(encodedObject.st)
                       \o " " \o encodedObject.text,
          variables |-> variablesJsonObject(encodedObject.st),
          st |-> encodedObject.st]

\* encodeRequest(operationType, request, codec), run on the instance st
encodeRequestOn(st, operationType, req, c) ==
    EncodedRequest(operationType, encodeObject(st, req, c))

\* what the caller of encodeRequest gets: the EncodedRequest, or the error
Outcome(r) ==
    [ok |-> r.ok, err |-> r.err, query |-> r.query, variables |-> r.variables]

----------------------------------------------------------------------------
(* The response decoder.                                                   *)

RECURSIVE decodeObject(_, _)
RECURSIVE decodeList(_, _)
RECURSIVE decodeNull(_, _)
RECURSIVE ApplyDecoder(_, _)
RECURSIVE decodeEntries(_, _, _)
RECURSIVE DecodedAfter(_, _, _, _)
RECURSIVE decodeElements(_, _, _)
RECURSIVE ElementsAfter(_, _, _, _)

Failed(kind, key) == [err |-> Err(kind, key), value |-> Undefined]
Value(v) == [err |-> NoError, value |-> v]

\* decoder[fieldName]?.decode
DecodeOf(decoder, fieldName) ==
    IF Get(decoder, fieldName) = Undefined THEN Undefined
    ELSE Get(decoder, fieldName).decode

\* descriptor.decode(v): the generated codec composes the decode helpers
ApplyDecoder(d, v) ==
    CASE d.k = "scalar" -> Value(ScalarDecode(d.s, v))
      [] d.k = "object" -> decodeObject(v, Codecs[d.c])
      [] d.k = "list" -> decodeList(v, d.of)
      [] d.k = "null" -> decodeNull(v, d.of)

\* (mutation) a key whose decoder fails is left out of the result
DecodedAfter_BestEffort(r, entries, decoder, acc) ==
    IF r.err # NoError THEN decodeEntries(Tail(entries), decoder, acc)
    ELSE decodeEntries(Tail(entries), decoder,
                       Append(acc, <<entries[1][1], r.value>>))

\* the .map of decodeObject over Object.entries(value), left to right, then
\* the .reduce with Object.assign
DecodedAfter(r, entries, decoder, acc) ==
    IF r.err # NoError THEN r
    ELSE decodeEntries(Tail(entries), decoder,
                       Append(acc, <<entries[1][1], r.value>>))

\* (mutation) a key the codec does not know is ignored
decodeEntries_IgnoreUnknown(entries, decoder, acc) ==
    IF entries = <<>> THEN Value(Obj(AssignAll(<<>>, acc)))
    ELSE IF DecodeOf(decoder, entries[1][1]) = Undefined
         THEN decodeEntries(Tail(entries), decoder, acc)
    ELSE DecodedAfter(ApplyDecoder(DecodeOf(decoder, entries[1][1]),
                                   entries[1][2]),
                      entries, decoder, acc)

decodeEntries(entries, decoder, acc) ==
    IF entries = <<>> THEN Value(Obj(AssignAll(<<>>, acc)))
    ELSE IF DecodeOf(decoder, entries[1][1]) = Undefined
         THEN Failed("MissingDecoder", entries[1][1])
    ELSE DecodedAfter(ApplyDecoder(DecodeOf(decoder, entries[1][1]),
                                   entries[1][2]),
                      entries, decoder, acc)

\* decodeObject(value, decoder)
decodeObject(v, decoder) ==
    IF v.t \notin {"null", "undefined"} /\ TypeOf(v) = "object"
    THEN decodeEntries(Entries(v), decoder, <<>>)
    ELSE Failed("ExpectedObject", "")

\* value.map(decode)
ElementsAfter(r, elements, d, acc) ==
    IF r.err # NoError THEN r
    ELSE decodeElements(Tail(elements), d, Append(acc, r.value))

decodeElements(elements, d, acc) ==
    IF elements = <<>> THEN Value(Arr(acc))
    ELSE ElementsAfter(ApplyDecoder(d, elements[1]), elements, d, acc)

\* decodeList(value, decode); the message of the Error quotes `${value}`
decodeList(v, d) ==
    IF IsArray(v) THEN decodeElements(v.e, d, <<>>)
    ELSE IF TemplateThrows(v) THEN Failed("TypeError", "")
    ELSE Failed("ExpectedArray", "")

\* (mutation) only undefined passes, null goes to the inner decoder
decodeNull_UndefinedOnly(v, d) ==
    IF v.t = "undefined" THEN Value(Null)
    ELSE ApplyDecoder(d, v)

\* decodeNull(value, decode)
decodeNull(v, d) ==
    IF v.t \in {"null", "undefined"} THEN Value(Null)
    ELSE ApplyDecoder(d, v)

\* decodeObjectResponse(value, decoder)
decodeObjectResponse(v, decoder) == decodeObject(v, decoder)

----------------------------------------------------------------------------
(* The encode helpers for input values: encodeNull, encodeList and the     *)
(* encodeObject of the runtime index (here encodeInputObject: the name     *)
(* encodeObject is taken by the method of GraphQLRequest).                 *)

\* encoders, as the generated codec composes them
EScalar(s) == [k |-> "scalar", s |-> s]
EObject(c) == [k |-> "object", c |-> c]
EList(d) == [k |-> "list", of |-> d]
ENull(d) == [k |-> "null", of |-> d]

\* Encoder = Record<string, (value: unknown) => unknown>
UserInput ==
    [name |-> EScalar("String"),
     since |-> ENull(EScalar("LocalDate")),
     tags |-> ENull(EList(EScalar("String"))),
     friend |-> ENull(EObject("UserInput"))]

Encoders == [UserInput |-> UserInput]

RECURSIVE encodeInputObject(_, _)
RECURSIVE encodeList(_, _)
RECURSIVE encodeNull(_, _)
RECURSIVE ApplyEncoder(_, _)
RECURSIVE encodeInputEntries(_, _, _)
RECURSIVE InputEncodedAfter(_, _, _, _)
RECURSIVE encodeElements(_, _, _)
RECURSIVE ElementsEncodedAfter(_, _, _, _)

\* f(v) for a member f of Object.prototype, called without a receiver (this
\* is undefined): toString answers for undefined, constructor is Object(v),
\* isPrototypeOf answers false for a primitive before it looks at this; the
\* others convert this to an object and throw a TypeError, and __proto__ is
\* no function
CallInherited(name, v) ==
    CASE name = "toString" -> Value(Str("[object Undefined]"))
      [] name = "constructor" ->
            Value(IF v.t \in {"null", "undefined"} THEN Obj(<<>>)
                  ELSE IF TypeOf(v) = "object" THEN v
                  ELSE Boxed(v))
      [] name = "isPrototypeOf" /\ TypeOf(v) # "object" -> Value(Bool(FALSE))
      [] name = "isPrototypeOf" /\ v.t = "null" -> Value(Bool(FALSE))
      [] OTHER -> Failed("TypeError", name)

\* encodeField(fieldValue): the generated encoder composes the helpers
ApplyEncoder(d, v) ==
    CASE d.k = "scalar" -> ScalarEncode(d.s, v)
      [] d.k = "object" -> encodeInputObject(v, Encoders[d.c])
      [] d.k = "list" -> encodeList(v, d.of)
      [] d.k = "null" -> encodeNull(v, d.of)

\* the .map of encodeObject over Object.entries(value), left to right, then
\* the .reduce with Object.assign
InputEncodedAfter(r, entries, encoder, acc) ==
    IF r.err # NoError THEN [err |-> r.err, value |-> Undefined]
    ELSE encodeInputEntries(Tail(entries), encoder,
                            Append(acc, <<entries[1][1], r.value>>))

\* encoder[fieldName] is looked up and called: a member inherited from
\* Object.prototype is found and called as a plain function
encodeInputEntries(entries, encoder, acc) ==
    IF entries = <<>> THEN Value(Obj(AssignAll(<<>>, acc)))
    ELSE IF Get(encoder, entries[1][1]) = Undefined
         THEN Failed("MissingEncoder", entries[1][1])
    ELSE IF IsInherited(Get(encoder, entries[1][1]))
         THEN InputEncodedAfter(CallInherited(entries[1][1], entries[1][2]),
                                entries, encoder, acc)
    ELSE InputEncodedAfter(ApplyEncoder(encoder[entries[1][1]], entries[1][2]),
                           entries, encoder, acc)

\* encodeObject(value, encoder)
encodeInputObject(v, encoder) ==
    IF v.t # "null" /\ TypeOf(v) = "object"
    THEN encodeInputEntries(Entries(v), encoder, <<>>)
    ELSE Failed("ExpectedObject", "")

\* value.map(item => encode(item))
ElementsEncodedAfter(r, elements, d, acc) ==
    IF r.err # NoError THEN [err |-> r.err, value |-> Undefined]
    ELSE encodeElements(Tail(elements), d, Append(acc, r.value))

encodeElements(elements, d, acc) ==
    IF elements = <<>> THEN Value(Arr(acc))
    ELSE ElementsEncodedAfter(ApplyEncoder(d, elements[1]), elements, d, acc)

\* encodeList(value, encode); the message of the Error quotes `${value}`
encodeList(v, d) ==
    IF IsArray(v) THEN encodeElements(v.e, d, <<>>)
    ELSE IF TemplateThrows(v) THEN Failed("TypeError", "")
    ELSE Failed("ExpectedArray", "")

\* encodeNull(value, encode)
encodeNull(v, d) ==
    IF v.t \in {"null", "undefined"} THEN Value(Null)
    ELSE ApplyEncoder(d, v)

----------------------------------------------------------------------------
(* The explored inputs.                                                    *)

SeqsUpTo(S, n) == UNION {[1..k -> S] : k \in 0..n}

DistinctKeys(s) == \A i, j \in 1..Len(s) : i # j => s[i][1] # s[j][1]

\* the objects of at most n entries with keys and values as given
Objs(pairs, n) == {Obj(s) : s \in {q \in SeqsUpTo(pairs, n) : DistinctKeys(q)}}

Operations == {"query", "mutation", "subscription"}

\* argument objects: values are typed as the call site's InputObjectType
\* requires, null or undefined; bogus is a name no args map has, toString
\* one that no args map has and every object inherits
ArgPairs ==
    {<<"id", Num(42)>>, <<"id", Null>>,
     <<"since", Moment("2024-05-01")>>, <<"since", Undefined>>,
     <<"bogus", Num(7)>>, <<"bogus", Null>>,
     <<"toString", Num(7)>>, <<"toString", Null>>}

ArgObjs == Objs(ArgPairs, MaxArgs)

SmallArgs ==
    {Obj(<<>>), Obj(<< <<"id", Num(42)>> >>), Obj(<< <<"id", Null>> >>),
     Obj(<< <<"bogus", Num(7)>> >>)}

\* what stands for the argument object of a tuple when it is no object
OddParams ==
    {Str("abc"), Str(""), Num(7), Bool(TRUE),
     Obj(<< <<"constructor", Num(7)>> >>), Obj(<< <<"__proto__", Num(7)>> >>)}

\* selections of scalar leaves
InnerSels ==
    Objs({"name", "email", "unknownField", "toString"} \X {Num(1)}, MaxFields)

NameEmail == Obj(<< <<"name", Num(1)>>, <<"email", Num(1)>> >>)

\* what a field of a selection may hold besides a tuple
SubSels == {Num(1), Str("abc"), Bool(TRUE), Null} \cup InnerSels

TupleVals ==
    {Arr(<<a, s>>) : a \in ArgObjs, s \in {Num(1), Str("abc"), NameEmail}}
    \cup {Arr(<<a, s>>) : a \in SmallArgs, s \in SubSels}
    \cup {Arr(<<a, s>>) : a \in OddParams, s \in {Num(1), NameEmail}}
    \cup {Arr(<<>>), Arr(<<Null, Num(1)>>), Arr(<<Obj(<<>>)>>)}

\* selections of a User that invoke the argumented field friend
MidSels ==
    {Obj(pre \o << <<"friend", Arr(<<a, s>>)>> >>) :
        pre \in {<<>>, << <<"name", Num(1)>> >>},
        a \in SmallArgs,
        s \in {NameEmail, Obj(<< <<"unknownField", Num(1)>> >>), Num(1)}}

SinceId == Obj(<< <<"since", Moment("2024-05-01")>>, <<"id", Num(42)>> >>)

FieldVals ==
    SubSels \cup TupleVals \cup MidSels
    \cup {Arr(<<a, m>>) : a \in SmallArgs \cup {SinceId}, m \in MidSels}

SiblingVals ==
    {Num(1), Str("abc"), Obj(<< <<"name", Num(1)>> >>),
     Arr(<<Obj(<< <<"id", Num(42)>> >>), Num(1)>>),
     Arr(<<SinceId, NameEmail>>)}

RootNames == {"getUser", "me", "version", "count", "unknownField", "toString"}

Selections ==
    Objs(RootNames \X FieldVals, 1)
    \cup Objs(RootNames \X SiblingVals, MaxFields)
    \cup {Null, Str("abc"), Num(1), Arr(<<>>), Arr(<<Num(1)>>)}

\* the selections of repeated calls
CallSelections ==
    {Obj(<< <<"version", Num(1)>> >>),
     Obj(<< <<"getUser", Arr(<<Obj(<< <<"id", Num(42)>> >>), NameEmail>>)>> >>),
     Obj(<< <<"getUser", Arr(<<Obj(<< <<"id", Num(42)>>,
                                     <<"since", Moment("2024-05-01")>> >>),
                               NameEmail>>)>>,
            <<"count", Arr(<<Obj(<< <<"id", Num(42)>> >>), Num(1)>>)>> >>),
     Obj(<< <<"count", Arr(<<Obj(<< <<"id", Num(42)>> >>), Num(1)>>)>>,
            <<"unknownField", Num(1)>> >>),
     Obj(<< <<"getUser", Arr(<<Obj(<< <<"id", Num(42)>> >>),
                               Obj(<< <<"friend", Arr(<<Obj(<< <<"id", Num(42)>> >>),
                                                        Str("abc")>>)>> >>)>>)>> >>)}

\* the instances encodeField is called on: a new one, and one that has
\* recorded a variable
Instances ==
    {[variables |-> <<>>, variableCounter |-> 1],
     [variables |-> <<[name |-> "v1", type |-> "ID", value |-> Str("u1")]>>,
      variableCounter |-> 2]}

FieldNames == {"Query"} \X DOMAIN QueryCodec \cup {"User"} \X DOMAIN UserCodec

\* the names encodeObject finds in a codec: those of its fields, and those
\* the codec inherits
FoundNames == FieldNames \cup {"Query", "User"} \X {"toString", "__proto__"}

\* wire values: what a server may answer
WireUsers ==
    Objs({"name", "email", "extraField", "toString"} \X {Str("Ann")}, MaxFields)

WireFieldVals ==
    {Str("1.0"), Null, Num(7), Arr(<<>>), Obj(<<>>),
     Obj(<< <<"name", Str("Ann")>> >>),
     Obj(<< <<"extraField", Str("Ann")>> >>),
     Obj(<< <<"name", Str("Ann")>>,
            <<"friends", Arr(<<Obj(<< <<"name", Str("Bob")>> >>)>>)>> >>)}

Responses ==
    Objs({"getUser", "me", "version", "extraField"} \X WireFieldVals, MaxFields)

NotObjects ==
    {Null, Undefined, Str("not an object"), Num(7), Bool(TRUE),
     Arr(<<>>), Arr(<<Obj(<<>>)>>), Arr(<<Str("1.0"), Null>>)}

WireValues == Responses \cup WireUsers \cup NotObjects

\* the values of a response field: the elements a server may list, and the
\* lists of them
WireElems ==
    {Obj(<<>>), Obj(<< <<"name", Str("Ann")>> >>),
     Obj(<< <<"name", Str("Bob")>>, <<"email", Str("bob@x.org")>> >>),
     Obj(<< <<"extraField", Str("Ann")>> >>), Null, Str("Ann")}

WireLists == {Arr(s) : s \in SeqsUpTo(WireElems, MaxElems)}

WireFields ==
    WireLists \cup {Null, Undefined, Str("Ann"), Num(7), Bool(TRUE), Obj(<<>>),
                    Obj(<< <<"name", Str("Ann")>> >>),
                    Obj(<< <<"toString", Str("x")>> >>),
                    Obj(<< <<"name", Str("Ann")>>, <<"toString", Null>> >>),
                    Obj(<< <<"valueOf", Str("x")>> >>)}

\* the selections the generated client's query is called with
QuerySelections ==
    CallSelections
    \cup {Obj(<< <<"version", Num(1)>>, <<"me", Obj(<< <<"name", Num(1)>> >>)>> >>),
          Obj(<< <<"me", Obj(<< <<"name", Num(1)>>, <<"email", Num(1)>> >>)>> >>),
          Obj(<< <<"version", Num(1)>>, <<"toString", Num(1)>> >>),
          Obj(<< <<"count", Arr(<<Obj(<< <<"id", Num(42)>> >>), Num(1)>>)>>,
                 <<"getUser", Arr(<<Str("abc"), NameEmail>>)>> >>)}

\* the selections the generated client's mutation is called with
MutationSelections ==
    {Obj(<< <<"setName", Arr(<<Obj(<< <<"name", Str("Ann")>> >>), NameEmail>>)>> >>),
     Obj(<< <<"setName", Arr(<<Obj(<< <<"bogus", Num(7)>> >>), NameEmail>>)>> >>),
     Obj(<< <<"setName", NameEmail>> >>)}

\* what a server may answer to a mutation
MutationResponses ==
    {Obj(<< <<"setName", v>> >>) :
        v \in WireUsers \cup {Null, Str("Ann"), Arr(<<>>)}}
    \cup {Obj(<<>>), Obj(<< <<"extraField", Num(1)>> >>)}

\* the selections the generated client's subscription is called with
SubscriptionSelections ==
    {Obj(<< <<"version", Num(1)>> >>),
     Obj(<< <<"userChanged", Arr(<<Obj(<< <<"id", Num(42)>> >>), NameEmail>>)>>,
            <<"version", Num(1)>> >>),
     Obj(<< <<"version", Num(1)>>, <<"unknownField", Num(1)>> >>),
     Obj(<< <<"toString", Num(1)>> >>)}

\* the data of the messages a subscription may receive
Messages ==
    {Obj(<< <<"version", Str("1.0")>> >>), Obj(<< <<"version", Str("1.1")>> >>),
     Obj(<< <<"userChanged", Obj(<< <<"name", Str("Ann")>> >>)>> >>),
     Obj(<< <<"userChanged", Null>>, <<"version", Str("1.0")>> >>),
     Obj(<< <<"userChanged", Str("Ann")>> >>),
     Obj(<< <<"extraField", Num(1)>> >>), Obj(<<>>), Arr(<<>>)}

\* input values: what a caller may hand to the encoder of an argument
InputFieldVals ==
    {Str("Ann"), Null, Undefined, Num(7),
     Arr(<<>>), Arr(<<Str("a"), Str("b")>>),
     Obj(<< <<"name", Str("Bob")>> >>), Obj(<< <<"extra", Str("Bob")>> >>)}

InputObjects ==
    Objs({"name", "tags", "friend", "extra"} \X InputFieldVals, MaxFields)

\* input objects with a key every encoder inherits
InheritedInputs ==
    {Obj(<< <<k, v>> >>) :
        k \in {"toString", "constructor", "isPrototypeOf", "valueOf", "__proto__"},
        v \in {Str("x"), Num(7), Null, Obj(<<>>)}}
    \cup {Obj(<< <<"name", Str("Ann")>>, <<"toString", Str("x")>> >>),
          Obj(<< <<"hasOwnProperty", Str("name")>>, <<"extra", Str("Bob")>> >>)}

InputValues ==
    InputObjects \cup InputFieldVals \cup InheritedInputs
    \cup {Bool(TRUE), Obj(<<>>), Arr(<<Obj(<<>>)>>), Arr(<<Str("a"), Null>>)}

\* the encoders the helpers are called with
InputEncoders ==
    {EObject("UserInput"), EList(EScalar("String")), EList(EObject("UserInput")),
     ENull(EScalar("Int")), ENull(EList(EScalar("String"))),
     ENull(EObject("UserInput"))}

----------------------------------------------------------------------------
(* The state machine.                                                      *)

NoResult == [ok |-> FALSE, err |-> NoError, query |-> "", variables |-> Undefined]
NoDecoded == [err |-> NoError, value |-> Undefined]
NoMemo == [set |-> FALSE, calls |-> 0]
NoWalk == [stack |-> <<>>, err |-> NoError, invoked |-> 0]

Init ==
    /\ pc = "idle"
    /\ op = ""
    /\ request = Undefined
    /\ codec = ""
    /\ encoding = [variables |-> <<>>, variableCounter |-> 1]
    /\ result = NoResult
    /\ value = Undefined
    /\ decoded = NoDecoded
    /\ memo = NoMemo
    /\ walk = NoWalk
    /\ delivered = <<>>

\* encodeRequest(operationType, request, codec): a new GraphQLRequest is
\* built for the call and dropped after it
EncodeRequest(operationType, req, c) ==
    LET r == encodeRequestOn(NewGraphQLRequest, operationType, req, Codecs[c])
    IN /\ op' = operationType
       /\ request' = req
       /\ codec' = c
       /\ encoding' = r.st
       /\ result' = Outcome(r)
       /\ memo' = [memo EXCEPT !.calls = IF memo.set THEN @ + 1 ELSE @]
       /\ UNCHANGED <<value, decoded, walk, delivered>>

\* one call of encodeRequest, as the generated client makes it
Call ==
    /\ pc = "idle"
    /\ \E o \in Operations, r \in Selections : EncodeRequest(o, r, "Query")
    /\ pc' = "encodeRequest"

Next == Call

Spec == Init /\ [][Next]_vars

\* any number of calls of encodeRequest, one after the other
CallAgain ==
    /\ pc \in {"idle", "encodeRequest"}
    /\ memo.calls < MaxCalls
    /\ \E o \in Operations, r \in CallSelections, c \in {"Query", "User"} :
          EncodeRequest(o, r, c)
    /\ pc' = "encodeRequest"

\* history: keep the latest call and its outcome, and count the calls after it
Remember ==
    /\ pc = "encodeRequest"
    /\ ~memo.set
    /\ memo' = [set |-> TRUE, calls |-> 0, op |-> op, request |-> request, codec |-> codec,
                result |-> result, names |-> [i \in 1..Len(encoding.variables) |->
                                                encoding.variables[i].name]]
    /\ UNCHANGED <<pc, op, request, codec, encoding, result, value, decoded, walk, delivered>>

NextCalls == CallAgain \/ Remember

SpecCalls == Init /\ [][NextCalls]_vars

\* encodeField(field, value, codec), called on an instance in the course of
\* an encodeObject
EncodeFieldCall ==
    /\ pc = "idle"
    /\ \E st \in Instances, f \in FoundNames, v \in FieldVals :
          LET r == encodeField(st, f[2], v, Get(Codecs[f[1]], f[2]))
          IN /\ pc' = "encodeField"
             /\ request' = [field |-> f[2], value |-> v, before |-> st]
             /\ codec' = f[1]
             /\ encoding' = r.st
             /\ result' = [ok |-> r.err = NoError, err |-> r.err,
                           query |-> r.text, variables |-> Undefined]
             /\ UNCHANGED <<op, value, decoded, memo, walk, delivered>>

NextField == EncodeFieldCall

SpecField == Init /\ [][NextField]_vars

\* decodeObject(value, decoder)
DecodeObjectCall ==
    /\ pc = "idle"
    /\ \E v \in WireValues, c \in {"Query", "User"} :
          /\ pc' = "decodeObject"
          /\ value' = v
          /\ codec' = c
          /\ decoded' = decodeObject(v, Codecs[c])
          /\ UNCHANGED <<op, request, encoding, result, memo, walk, delivered>>

NextDecode == DecodeObjectCall

SpecDecode == Init /\ [][NextDecode]_vars

\* query(request) of the generated client, up to the await of sendRequest:
\* the request is encoded and sent, unless encodeRequest throws
Query ==
    /\ pc = "idle"
    /\ \E r \in QuerySelections : EncodeRequest("query", r, "Query")
    /\ pc' = IF result'.ok THEN "awaiting" ELSE "query"

\* mutation(request) of the generated client, up to the await of
\* sendRequest: query with "mutation" and codec.Mutation
Mutation ==
    /\ pc = "idle"
    /\ \E r \in MutationSelections : EncodeRequest("mutation", r, "Mutation")
    /\ pc' = IF result'.ok THEN "awaiting" ELSE "mutation"

\* sendRequest answered: without data query (mutation) throws, otherwise the
\* data is decoded with codec.Query (codec.Mutation); the selection is not
\* consulted
Receive ==
    /\ pc = "awaiting"
    /\ \E data \in (IF op = "query" THEN Responses ELSE MutationResponses)
                        \cup {Undefined, Null} :
          /\ value' = data
          /\ decoded' = IF data = Undefined THEN Failed("NoData", "")
                        ELSE decodeObjectResponse(data, Codecs[codec])
    /\ pc' = op
    /\ UNCHANGED <<op, request, codec, encoding, result, memo, walk, delivered>>

\* sendRequest threw (the response was not ok)
ReceiveError ==
    /\ pc = "awaiting"
    /\ decoded' = Failed("Http", "")
    /\ pc' = op
    /\ UNCHANGED <<op, request, codec, encoding, result, value, memo, walk, delivered>>

\* subscription(request, onReceived) of the generated client, up to the
\* iteration of the listener: the request is encoded with codec.Subscription
\* and handed to client.iterate, unless encodeRequest throws
Subscription ==
    /\ pc = "idle"
    /\ \E r \in SubscriptionSelections :
          EncodeRequest("subscription", r, "Subscription")
    /\ pc' = IF result'.ok THEN "listening" ELSE "subscription"

\* the outcome of one turn of the for await loop: without data (undefined or
\* null) subscription throws, otherwise the data is decoded with
\* codec.Subscription
Message(data) ==
    IF data \in {Undefined, Null} THEN Failed("NoData", "")
    ELSE decodeObjectResponse(data, Codecs["Subscription"])

\* the listener yields a message: what was decoded is handed to onReceived
\* and the loop goes on; a throw ends the subscription
ReceiveMessage ==
    /\ pc = "listening"
    /\ Len(delivered) < MaxMessages
    /\ \E data \in Messages \cup {Undefined, Null} :
          /\ value' = data
          /\ decoded' = Message(data)
          /\ delivered' = IF Message(data).err = NoError
                          THEN Append(delivered, Message(data).value)
                          ELSE delivered
          /\ pc' = IF Message(data).err = NoError THEN "listening"
                   ELSE "subscription"
    /\ UNCHANGED <<op, request, codec, encoding, result, memo, walk>>

\* the listener is done: the loop ends and subscription returns
Complete ==
    /\ pc = "listening"
    /\ pc' = "subscription"
    /\ UNCHANGED <<op, request, codec, encoding, result, value, decoded, memo,
                   walk, delivered>>

NextQuery ==
    \/ Query \/ Mutation \/ Receive \/ ReceiveError
    \/ Subscription \/ ReceiveMessage \/ Complete

SpecQuery == Init /\ [][NextQuery]_vars

\* decodeField(fieldValue) of decodeObject: the decode of a field descriptor
\* applied to the value of a response key
DecodeFieldCall ==
    /\ pc = "idle"
    /\ \E f \in FieldNames, v \in WireFields :
          /\ pc' = "decodeField"
          /\ request' = [field |-> f[2]]
          /\ codec' = f[1]
          /\ value' = v
          /\ decoded' = ApplyDecoder(Codecs[f[1]][f[2]].decode, v)
          /\ UNCHANGED <<op, encoding, result, memo, walk, delivered>>

NextDecodeField == DecodeFieldCall

SpecDecodeField == Init /\ [][NextDecodeField]_vars

\* the domain values of a scalar: Decoded of Scalar<Encoded, Decoded>
DomainValues(name) ==
    CASE name \in {"ID", "String"} ->
            {Str(x) : x \in {"", "u1", "Ann", "2024-05-01", "not a date"}}
      [] name \in {"Int", "Float"} -> {Num(n) : n \in (0 - MaxNumber)..MaxNumber}
      [] name = "Boolean" -> {Bool(TRUE), Bool(FALSE)}
      [] name = "LocalDate" ->
            {MomentAt(d, h) : d \in {"2024-05-01", "2024-12-31", "1999-01-01"},
                              h \in 0..MaxHour}

\* s.decode(s.encode(v)) for a scalar s of appScalars
ScalarRoundTrip ==
    /\ pc = "idle"
    /\ \E name \in DOMAIN appScalars :
          \E v \in DomainValues(name) :
             /\ request' = [scalar |-> name, domain |-> v]
             /\ value' = ScalarEncode(name, v).value
             /\ decoded' = Value(ScalarDecode(name, ScalarEncode(name, v).value))
    /\ pc' = "scalar"
    /\ UNCHANGED <<op, codec, encoding, result, memo, walk, delivered>>

NextScalar == ScalarRoundTrip

SpecScalar == Init /\ [][NextScalar]_vars

\* encodeObject(value, encoder), encodeList(value, encode) or
\* encodeNull(value, encode) of the runtime index
EncodeInputCall ==
    /\ pc = "idle"
    /\ \E d \in InputEncoders, v \in InputValues :
          /\ request' = [encoder |-> d]
          /\ value' = v
          /\ decoded' = ApplyEncoder(d, v)
    /\ pc' = "encodeInput"
    /\ UNCHANGED <<op, codec, encoding, result, memo, walk, delivered>>

NextInput == EncodeInputCall

SpecInput == Init /\ [][NextInput]_vars

----------------------------------------------------------------------------
(* The traversals frame by frame.  A frame is one activation of            *)
(* encodeObject, decodeObject or decodeList: the entries (elements) its    *)
(* .map has still to visit and the codec (decoder) it visits them with.    *)
(* encodeField, encodeFunction and decodeNull return or call on within a   *)
(* step.  A throw unwinds the whole stack: nothing catches.  The instance  *)
(* the traversal of a selection runs on is the variable encoding: a step   *)
(* that passes encodeFunction leaves on it the variables that call pushed. *)
(* A frame keeps in acc what its .map has produced so far, and what the    *)
(* outermost activation returns is what the call returns.                  *)

RECURSIVE DeepSel(_)
\* selections that follow the cycle User -> friend -> User
DeepSel(n) ==
    IF n = 0 THEN NameEmail
    ELSE Obj(<< <<"name", Num(1)>>,
                <<"friend", Arr(<<Obj(<< <<"id", Num(42)>> >>), DeepSel(n - 1)>>)>> >>)

RECURSIVE DeepUser(_)
\* responses that follow the cycle User -> friends -> User
DeepUser(n) ==
    IF n = 0 THEN Obj(<< <<"name", Str("Ann")>> >>)
    ELSE Obj(<< <<"name", Str("Ann")>>,
                <<"friends", Arr(<<DeepUser(n - 1), DeepUser(0)>>)>>,
                <<"friend", Null>> >>)

WalkSelections ==
    QuerySelections
    \cup {Obj(<< <<f, v>> >>) :
             f \in {"getUser", "me"},
             v \in MidSels \cup {DeepSel(n) : n \in 0..MaxDepth}
                   \cup {Arr(<<a, m>>) : a \in SmallArgs, m \in MidSels}}
    \cup {Obj(<< <<"me", Obj(<< <<"toString", v>>, <<"name", Num(1)>> >>)>> >>) :
             v \in {Num(1), NameEmail, Arr(<<Obj(<<>>), Num(1)>>)}}
    \cup {Obj(<< <<"getUser", Arr(<<a, NameEmail>>)>> >>) :
             a \in {Str("abc"), Str(""), Obj(<< <<"toString", Num(7)>> >>)}}
    \cup {Null, Str("abc"), Arr(<<Num(1)>>)}

WalkResponses ==
    {Obj(<< <<f, v>> >>) :
        f \in {"getUser", "me", "version", "extraField"},
        v \in WireFieldVals \cup {DeepUser(n) : n \in 0..MaxDepth}
              \cup {Obj(<< <<"toString", Str("x")>> >>),
                    Obj(<< <<"friends", Obj(<< <<"toString", Str("x")>> >>)>> >>)}}
    \cup NotObjects

\* a throw: the stack is unwound
Thrown(w, err) == [w EXCEPT !.stack = <<>>, !.err = err]

\* the running activation drops the entry it has taken
Advanced(w) == [w EXCEPT !.stack[Len(w.stack)].todo = Tail(@)]

\* the running activation returns
Popped(w) == [w EXCEPT !.stack = SubSeq(@, 1, Len(@) - 1)]

\* the .map callback of the running encodeObject returns text: .map keeps
\* it for the .join
Took(w, text) == [w EXCEPT !.stack[Len(w.stack)].acc = Append(@, text)]

\* encodeObject(obj, codec()) is called: the supplier has been invoked.
\* head is what the caller puts before the text encodeObject returns:
\* nothing in encodeRequest, the field or the call otherwise
EnterEncodeObject(w, head, obj, c) ==
    IF obj.t # "null" /\ TypeOf(obj) = "object"
    THEN [w EXCEPT !.stack = Append(@, [k |-> "encodeObject",
                                        todo |-> Entries(obj), c |-> c,
                                        acc |-> <<>>, head |-> head]),
                   !.invoked = @ + 1]
    ELSE Thrown([w EXCEPT !.invoked = @ + 1], Err("ExpectedObject", ""))

\* `{ ${request} }` of an activation of encodeObject whose .map is done
ObjectText(f) == "{ " \o Join(f.acc, " ") \o " }"

\* the running encodeObject returns, and its caller encodeField or
\* encodeFunction returns `${head} ${subRequest}` to the .map it was
\* called from
EncodeReturned(w) ==
    IF Len(w.stack) = 1 THEN Popped(w)
    ELSE Took(Popped(w),
              w.stack[Len(w.stack)].head[1] \o " "
                  \o ObjectText(w.stack[Len(w.stack)]))

\* a step of the traversal: the stack it leaves and the instance it leaves
On(w, st) == [walk |-> w, st |-> st]

\* encodeFunction after its arguments a were encoded on the instance: the
\* dispatch on fieldRequest up to the call of encodeObject
WalkFunctionRequest(w, field, fieldRequest, encoder, a) ==
    IF a.err # NoError THEN On(Thrown(w, a.err), a.st)
    ELSE IF TypeOf(fieldRequest) = "number"
         THEN On(Took(w, CallText(field, a.input)), a.st)
    ELSE IF TypeOf(fieldRequest) = "object"
         THEN IF encoder.codec = <<>>
              THEN On(Thrown(w, Err("MissingSubCodec", field)), a.st)
              ELSE On(EnterEncodeObject(w, <<CallText(field, a.input)>>,
                                        fieldRequest, encoder.codec[1]), a.st)
    ELSE On(Thrown(w, Err("InvalidSelectionShape", field)), a.st)

\* encodeFunction(field, params, fieldRequest, encoder) up to its call of
\* encodeObject: the arguments are encoded on the instance st, which keeps
\* the variables pushed, those pushed before a throw included
WalkFunction(w, st, field, params, fieldRequest, encoder) ==
    IF encoder.args = <<>> THEN On(Thrown(w, Err("MissingArgsCodec", field)), st)
    ELSE IF EntriesThrows(params) THEN On(Thrown(w, Err("TypeError", field)), st)
    ELSE WalkFunctionRequest(w, field, fieldRequest, encoder,
             encodeArguments(st, NonNullEntries(Entries(params)),
                             encoder.args[1], <<>>))

RECURSIVE AsEntries(_)
\* (mutation) the selection of every field of a codec
AsEntries(fields) ==
    IF fields = {} THEN <<>>
    ELSE LET f == CHOOSE g \in fields : TRUE
         IN <<<<f, Num(1)>>>> \o AsEntries(fields \ {f})

\* (mutation) a selected field that has a sub-codec is expanded from the
\* codec, whether or not the selection nests a value there
WalkField_FromCodec(w, st, field, v, descriptor) ==
    IF descriptor.codec # <<>> /\ ~IsArray(v)
    THEN On(EnterEncodeObject(w, <<field>>,
                              Obj(AsEntries(DOMAIN SubCodec(descriptor))),
                              descriptor.codec[1]), st)
    ELSE IF TypeOf(v) = "number" THEN On(Took(w, field), st)
    ELSE IF IsArray(v)
         THEN WalkFunction(w, st, field, Index(v, 0), Index(v, 1), descriptor)
    ELSE On(Thrown(w, Err("MissingSubCodec", field)), st)

\* encodeField(field, value, codec) up to its call of encodeObject
WalkField(w, st, field, v, descriptor) ==
    IF TypeOf(v) = "number" THEN On(Took(w, field), st)
    ELSE IF IsArray(v)
         THEN WalkFunction(w, st, field, Index(v, 0), Index(v, 1), descriptor)
    ELSE IF descriptor.codec = <<>>
         THEN On(Thrown(w, Err("MissingSubCodec", field)), st)
    ELSE IF TypeOf(v) = "object"
         THEN On(EnterEncodeObject(w, <<field>>, v, descriptor.codec[1]), st)
    ELSE On(Thrown(w, Err("InvalidSelectionShape", field)), st)

\* the .map callback of the running encodeObject on its next entry, or the
\* return of that activation
EncodeNext(w, st) ==
    LET top == w.stack[Len(w.stack)]
    IN IF top.todo = <<>> THEN On(EncodeReturned(w), st)
       ELSE IF Get(Codecs[top.c], top.todo[1][1]) = Undefined
            THEN On(Thrown(w, Err("UnknownField", top.todo[1][1])), st)
       ELSE WalkField(Advanced(w), st, top.todo[1][1], top.todo[1][2],
                      Get(Codecs[top.c], top.todo[1][1]))

\* what encodeRequest has returned after the step from w to next on the
\* instance st: nothing while an activation is running; the error thrown;
\* or, the outermost encodeObject having returned, its text with the
\* declarations and the mapping of the variables st has recorded
WalkResult(w, next, st, operationType) ==
    IF next.stack # <<>> THEN NoResult
    ELSE IF next.err # NoError
         THEN Outcome(EncodedRequest(operationType,
                                     [err |-> next.err, text |-> "", st |-> st]))
    ELSE Outcome(EncodedRequest(operationType,
                                Returned(ObjectText(w.stack[1]), st)))

\* the callback of the running .map returns v for the entry key: decodeList
\* keeps the element, decodeObject the object {[fieldName]: v}
Gave(w, key, v) ==
    IF w.stack = <<>> THEN w
    ELSE IF w.stack[Len(w.stack)].k = "decodeList"
         THEN [w EXCEPT !.stack[Len(w.stack)].acc = Append(@, v)]
    ELSE [w EXCEPT !.stack[Len(w.stack)].acc = Append(@, <<key, v>>)]

\* what an activation returns whose .map is done: the array of decodeList,
\* the .reduce with Object.assign of decodeObject
FrameValue(f) ==
    IF f.k = "decodeList" THEN Arr(f.acc) ELSE Obj(AssignAll(<<>>, f.acc))

\* the running decodeObject or decodeList returns to the callback that
\* called it
DecodeReturned(w) ==
    Gave(Popped(w), w.stack[Len(w.stack)].key, FrameValue(w.stack[Len(w.stack)]))

RECURSIVE WalkDecoder(_, _, _, _)
\* descriptor.decode(v), called for the entry key, up to its call of
\* decodeObject or of value.map
WalkDecoder(w, key, d, v) ==
    CASE d.k = "scalar" -> Gave(w, key, ScalarDecode(d.s, v))
      [] d.k = "null" ->
            IF v.t \in {"null", "undefined"} THEN Gave(w, key, Null)
            ELSE WalkDecoder(w, key, d.of, v)
      [] d.k = "list" ->
            IF IsArray(v)
            THEN [w EXCEPT !.stack = Append(@, [k |-> "decodeList",
                                                todo |-> v.e, d |-> d.of,
                                                acc |-> <<>>, key |-> key])]
            ELSE IF TemplateThrows(v) THEN Thrown(w, Err("TypeError", ""))
            ELSE Thrown(w, Err("ExpectedArray", ""))
      [] d.k = "object" ->
            IF v.t \notin {"null", "undefined"} /\ TypeOf(v) = "object"
            THEN [w EXCEPT !.stack = Append(@, [k |-> "decodeObject",
                                                todo |-> Entries(v), c |-> d.c,
                                                acc |-> <<>>, key |-> key]),
                           !.invoked = @ + 1]
            ELSE Thrown([w EXCEPT !.invoked = @ + 1], Err("ExpectedObject", ""))

\* the .map callback of the running decodeObject or decodeList on its next
\* entry or element, or the return of that activation
DecodeNext(w) ==
    LET top == w.stack[Len(w.stack)]
    IN IF top.todo = <<>> THEN DecodeReturned(w)
       ELSE IF top.k = "decodeList"
            THEN WalkDecoder(Advanced(w), "", top.d, top.todo[1])
       ELSE IF DecodeOf(Codecs[top.c], top.todo[1][1]) = Undefined
            THEN Thrown(w, Err("MissingDecoder", top.todo[1][1]))
       ELSE WalkDecoder(Advanced(w), top.todo[1][1],
                        DecodeOf(Codecs[top.c], top.todo[1][1]),
                        top.todo[1][2])

\* what decodeObjectResponse has returned after the step from w to next:
\* nothing while an activation is running; the error thrown; or what the
\* outermost decodeObject returns
WalkDecoded(w, next) ==
    IF next.stack # <<>> THEN NoDecoded
    ELSE IF next.err # NoError THEN [err |-> next.err, value |-> Undefined]
    ELSE Value(FrameValue(w.stack[1]))

\* encodeRequest(operationType, request, codec) builds a new GraphQLRequest
\* and calls encodeObject on it
WalkEncode ==
    /\ pc = "idle"
    /\ \E r \in WalkSelections :
          /\ request' = r
          /\ walk' = [EnterEncodeObject(NoWalk, <<>>, r, "Query") EXCEPT !.invoked = 0]
    /\ op' = "query"
    /\ codec' = "Query"
    /\ encoding' = NewGraphQLRequest
    /\ result' = WalkResult(NoWalk, walk', encoding', op')
    /\ pc' = IF walk'.stack = <<>> THEN "walked" ELSE "encoding"
    /\ UNCHANGED <<value, decoded, memo, delivered>>

\* one step of the .map of encodeObject: the next field is encoded, its
\* arguments recorded on the instance, or the activation returns; when the
\* outermost activation has returned, encodeRequest returns
EncodeStep ==
    /\ pc = "encoding"
    /\ walk' = EncodeNext(walk, encoding).walk
    /\ encoding' = EncodeNext(walk, encoding).st
    /\ result' = WalkResult(walk, walk', encoding', op)
    /\ pc' = IF walk'.stack = <<>> THEN "walked" ELSE "encoding"
    /\ UNCHANGED <<op, request, codec, value, decoded, memo, delivered>>

\* decodeObjectResponse(value, decoder) calls decodeObject
WalkDecode ==
    /\ pc = "idle"
    /\ \E v \in WalkResponses :
          /\ value' = v
          /\ walk' = [WalkDecoder(NoWalk, "", DObject("Query"), v) EXCEPT !.invoked = 0]
    /\ codec' = "Query"
    /\ decoded' = WalkDecoded(NoWalk, walk')
    /\ pc' = IF walk'.stack = <<>> THEN "walked" ELSE "decoding"
    /\ UNCHANGED <<op, request, encoding, result, memo, delivered>>

\* one step of the .map of decodeObject or of decodeList; when the
\* outermost activation has returned, decodeObjectResponse returns
DecodeStep ==
    /\ pc = "decoding"
    /\ walk' = DecodeNext(walk)
    /\ decoded' = WalkDecoded(walk, walk')
    /\ pc' = IF walk'.stack = <<>> THEN "walked" ELSE "decoding"
    /\ UNCHANGED <<op, request, codec, encoding, result, value, memo, delivered>>

NextWalk == WalkEncode \/ EncodeStep \/ WalkDecode \/ DecodeStep

SpecWalk == Init /\ [][NextWalk]_vars

\* a call that has been made runs on: JavaScript runs a synchronous call to
\* completion
SpecWalkFair == SpecWalk /\ WF_vars(EncodeStep) /\ WF_vars(DecodeStep)

----------------------------------------------------------------------------
(* What a selection asks for, read off the selection alone.                *)

NonNull(entries) == SelectSeq(entries, LAMBDA e : e[2].t \notin {"null", "undefined"})

RECURSIVE Concat(_)
Concat(seqs) == IF seqs = <<>> THEN <<>> ELSE seqs[1] \o Concat(Tail(seqs))

RECURSIVE Sum(_)
Sum(ns) == IF ns = <<>> THEN 0 ELSE ns[1] + Sum(Tail(ns))

\* an argumented field: a field given as a 2-element tuple
IsTuple(v) == v.t = "array" /\ Len(v.e) = 2

\* the [type, value] a codec's args map makes of the non-null arguments of
\* params, in the key order of params
VariablesOfParams(params, args) ==
    LET nn == NonNull(Entries(params))
    IN [i \in 1..Len(nn) |->
          [type |-> args[nn[i][1]].type,
           value |-> ScalarEncode(args[nn[i][1]].encode, nn[i][2]).value]]

\* the variables of a selection the codec accepts, in traversal order: the
\* fields in key order, a field's arguments in key order, and the arguments
\* of a field before those of its sub-selection
RECURSIVE VariablesOfSelection(_, _)
VariablesOfSelection(sel, c) ==
    Concat([i \in 1..Len(Entries(sel)) |->
        LET v == Entries(sel)[i][2]
            d == Get(c, Entries(sel)[i][1])
        IN IF IsArray(v)
           THEN VariablesOfParams(Index(v, 0), d.args[1])
                \o (IF Index(v, 1).t \in {"object", "array"}
                    THEN VariablesOfSelection(Index(v, 1), SubCodec(d))
                    ELSE <<>>)
           ELSE IF v.t = "object" THEN VariablesOfSelection(v, SubCodec(d))
           ELSE <<>>])

\* the number of argumented fields of a selection, at any depth
RECURSIVE ArgumentedFields(_)
ArgumentedFields(sel) ==
    Sum([i \in 1..Len(Entries(sel)) |->
        LET v == Entries(sel)[i][2]
        IN IF IsArray(v)
           THEN 1 + (IF Index(v, 1).t \in {"object", "array"}
                     THEN ArgumentedFields(Index(v, 1)) ELSE 0)
           ELSE IF v.t = "object" THEN ArgumentedFields(v) ELSE 0])

\* the number of arguments with a value other than null and undefined
RECURSIVE NonNullArguments(_)
NonNullArguments(sel) ==
    Sum([i \in 1..Len(Entries(sel)) |->
        LET v == Entries(sel)[i][2]
        IN IF IsArray(v)
           THEN Len(NonNull(Entries(Index(v, 0))))
                + (IF Index(v, 1).t \in {"object", "array"}
                   THEN NonNullArguments(Index(v, 1)) ELSE 0)
           ELSE IF v.t = "object" THEN NonNullArguments(v) ELSE 0])

\* the keys of a variable mapping; none when the mapping is undefined
Keys(mapping) ==
    IF mapping.t = "object"
    THEN [i \in 1..Len(mapping.e) |-> mapping.e[i][1]] ELSE <<>>

VariableNames(n) == [i \in 1..n |-> "v" \o ToString(i)]

Encoded == pc = "encodeRequest"

----------------------------------------------------------------------------
(* C1.  A selection of one argumented field, whose tuple holds one         *)
(* non-null argument and an object sub-selection of scalar leaves, all of  *)
(* them known to the codec, is encoded as                                  *)
(*   <op>($v1: <type>) { <field>(<arg>: $v1) { <leaf> ... } }              *)
(* with the variables { v1: <encoded argument> }; the readme's selection   *)
(* { getUser: [{ id: 42 }, { name: 1, email: 1 }] } gives                  *)
(*   query($v1: Int) { getUser(id: $v1) { name email } }  and { v1: 42 }.  *)

ReadmeSelection ==
    Obj(<< <<"getUser", Arr(<<Obj(<< <<"id", Num(42)>> >>), NameEmail>>)>> >>)

C1_Shape ==
    /\ request.t = "object" /\ Len(request.e) = 1
    /\ IsTuple(request.e[1][2])
    /\ LET params == request.e[1][2].e[1]
           sub == request.e[1][2].e[2]
       IN /\ params.t = "object" /\ Len(params.e) = 1
          /\ params.e[1][2].t \notin {"null", "undefined"}
          /\ sub.t = "object" /\ Len(sub.e) >= 1
          /\ \A i \in 1..Len(sub.e) : sub.e[i][2].t = "number"

C1_Known ==
    LET field == request.e[1][1]
        params == request.e[1][2].e[1]
        sub == request.e[1][2].e[2]
    IN /\ field \in DOMAIN Codecs[codec]
       /\ Codecs[codec][field].args # <<>>
       /\ params.e[1][1] \in DOMAIN Codecs[codec][field].args[1]
       /\ Codecs[codec][field].codec # <<>>
       /\ \A i \in 1..Len(sub.e) : sub.e[i][1] \in DOMAIN SubCodec(Codecs[codec][field])

C1_SingleArgumentedField ==
    /\ (Encoded /\ C1_Shape /\ C1_Known) =>
          LET field == request.e[1][1]
              arg == request.e[1][2].e[1].e[1]
              sub == request.e[1][2].e[2]
              entry == Codecs[codec][field].args[1][arg[1]]
          IN /\ result.ok
             /\ result.query =
                   op \o "($v1: " \o entry.type \o ") { " \o field \o "("
                      \o arg[1] \o ": $v1) { "
                      \o Join([i \in 1..Len(sub.e) |-> sub.e[i][1]], " ")
                      \o " } }"
             /\ result.variables =
                   Obj(<< <<"v1", ScalarEncode(entry.encode, arg[2]).value>> >>)
    /\ (Encoded /\ request = ReadmeSelection /\ op = "query" /\ codec = "Query") =>
          /\ result.ok
          /\ result.query = "query($v1: Int) { getUser(id: $v1) { name email } }"
          /\ result.variables = Obj(<< <<"v1", Num(42)>> >>)

C1_Witness ==
    /\ Encoded /\ request = ReadmeSelection /\ op = "query" /\ codec = "Query"
    /\ result.ok

----------------------------------------------------------------------------
(* C2.  After a successful encodeRequest the variables the instance        *)
(* generated are named v1, v2, ..., vn, pairwise distinct and without      *)
(* gaps, and the i-th one is the i-th argument of the selection in         *)
(* left-to-right, depth-first order: fields in key order, the arguments of *)
(* a field in the key order of its argument object, all of them before any *)
(* argument of the field's sub-selection.                                  *)

C2_VariableNamesInTraversalOrder ==
    (Encoded /\ result.ok) =>
        LET expected == VariablesOfSelection(request, Codecs[codec])
            variables == encoding.variables
        IN /\ Len(variables) = Len(expected)
           /\ \A i \in 1..Len(variables) :
                 /\ variables[i].name = "v" \o ToString(i)
                 /\ variables[i].type = expected[i].type
                 /\ variables[i].value = expected[i].value
           /\ \A i, j \in 1..Len(variables) :
                 i # j => variables[i].name # variables[j].name

C2_Witness ==
    /\ Encoded /\ result.ok
    /\ request = Obj(<< <<"getUser", Arr(<<SinceId,
                     Obj(<< <<"name", Num(1)>>,
                            <<"friend", Arr(<<Obj(<< <<"id", Num(42)>> >>),
                                              NameEmail>>)>> >>)>>)>> >>)
    /\ [i \in 1..Len(encoding.variables) |-> encoding.variables[i].type]
          = <<"LocalDate", "Int", "Int">>
    /\ Keys(result.variables) = <<"v1", "v2", "v3">>

----------------------------------------------------------------------------
(* C3.  As claimed: a successful encodeRequest of a selection with k       *)
(* argumented fields returns a variable mapping of exactly k keys.         *)

C3_OneVariablePerArgumentedField ==
    (Encoded /\ result.ok) =>
        Len(Keys(result.variables)) = ArgumentedFields(request)

(* C3, amended.  A successful encodeRequest of a selection whose           *)
(* argumented fields carry, in total, k arguments with a value other than  *)
(* null and undefined returns a variable mapping whose keys are exactly    *)
(* v1..vk, in this order, each once; the mapping is undefined when k = 0.  *)

C3_OneVariablePerArgument ==
    (Encoded /\ result.ok) =>
        /\ Keys(result.variables) = VariableNames(NonNullArguments(request))
        /\ (NonNullArguments(request) = 0) = (result.variables = Undefined)

C3_Witness ==
    /\ Encoded /\ result.ok
    /\ ArgumentedFields(request) = 1
    /\ Keys(result.variables) = <<"v1", "v2">>

----------------------------------------------------------------------------
(* C4.  encodeRequest does not depend on the calls made before it: when a  *)
(* selection is encoded again with the same operation and codec, whatever  *)
(* calls, successful or failing, were made in between, the outcome (query  *)
(* text, variable mapping or error) and the variable names, in order, are  *)
(* those of the earlier call; and the numbering of every call starts at    *)
(* v1.                                                                     *)

C4_SameCall ==
    /\ memo.set /\ Encoded
    /\ memo.op = op /\ memo.request = request /\ memo.codec = codec

C4_HistoryIndependent ==
    /\ C4_SameCall =>
          /\ memo.result = result
          /\ memo.names = [i \in 1..Len(encoding.variables) |->
                              encoding.variables[i].name]
    /\ (Encoded /\ encoding.variables # <<>>) =>
          encoding.variables[1].name = "v1"

C4_Witness ==
    /\ C4_SameCall
    /\ memo.calls >= 2
    /\ result.ok
    /\ Keys(result.variables) = <<"v1", "v2", "v3">>

----------------------------------------------------------------------------
(* C5.  A selection object, at the root, inside an object sub-selection or *)
(* inside the sub-selection of an argumented field, that has a field name  *)
(* which is not a key of the codec of its level makes encodeRequest fail    *)
(* with UnknownField, and no EncodedRequest is returned.                   *)

RECURSIVE HasUnknownField(_, _)
\* the selection object under a field value: the value itself, or the
\* second element of a tuple
SubSelection(v) == IF v.t = "array" THEN Index(v, 1) ELSE v

\* some selection object under sel has a name that is no key of its codec
HasUnknownField(sel, c) ==
    /\ sel.t = "object"
    /\ \E i \in 1..Len(sel.e) :
          LET field == sel.e[i][1]
          IN \/ field \notin DOMAIN c
             \/ /\ c[field].codec # <<>>
                /\ HasUnknownField(SubSelection(sel.e[i][2]), SubCodec(c[field]))

C5_UnknownFieldAlwaysReported ==
    (Encoded /\ HasUnknownField(request, Codecs[codec])) =>
        /\ ~result.ok
        /\ result.err.kind = "UnknownField"

\* toString is no key of the Query codec, and the request is encoded with it
C5_Witness ==
    /\ Encoded
    /\ op = "query" /\ codec = "Query"
    /\ request = Obj(<< <<"version", Num(1)>>, <<"toString", Num(1)>> >>)
    /\ HasUnknownField(request, Codecs[codec])
    /\ result.ok
    /\ result.query = "query { version toString }"

----------------------------------------------------------------------------
(* C6.  encodeField called with a tuple [params, fieldRequest].            *)

TupleEncoded == pc = "encodeField" /\ request.value.t = "array"

\* the entries of the argument object whose value is neither null nor
\* undefined, in order
SuppliedArguments ==
    IF Index(request.value, 0).t = "object"
    THEN NonNull(Index(request.value, 0).e)
    ELSE <<>>

\* the field descriptor encodeField was called with
Descriptor == Get(Codecs[codec], request.field)

\* the variables a call records for the supplied arguments: named from the
\* counter of the instance on, typed and encoded by the entry of each key
RecordedArguments(args) ==
    [i \in 1..Len(SuppliedArguments) |->
        [name |-> "v" \o ToString(request.before.variableCounter + i - 1),
         type |-> args[SuppliedArguments[i][1]].type,
         value |-> ScalarEncode(args[SuppliedArguments[i][1]].encode,
                                SuppliedArguments[i][2]).value]]

\* the first supplied argument that has no entry in the args map
FirstUnknownArgument(args) ==
    LET unknown == SelectSeq(SuppliedArguments, LAMBDA e : e[1] \notin DOMAIN args)
    IN IF unknown = <<>> THEN "" ELSE unknown[1][1]

(* A tuple for a field whose descriptor has no args map fails with         *)
(* MissingArgsCodec, whatever the argument object holds, and nothing is    *)
(* recorded; with an args map, a supplied (non-null) argument without an   *)
(* entry fails with UnknownArgument; otherwise every supplied argument is  *)
(* recorded, in order, under a new name, with the wire type declared by    *)
(* its entry and the value its entry's encoder gives, ahead of whatever    *)
(* the sub-selection of the tuple records.                                 *)
C6_ArgumentsChecked ==
    TupleEncoded =>
        IF Descriptor.args = <<>>
        THEN /\ result.err = Err("MissingArgsCodec", request.field)
             /\ encoding = request.before
        ELSE IF FirstUnknownArgument(Descriptor.args[1]) # ""
        THEN /\ ~result.ok
             /\ result.err = Err("UnknownArgument",
                                 FirstUnknownArgument(Descriptor.args[1]))
        ELSE LET recorded == request.before.variables
                                 \o RecordedArguments(Descriptor.args[1])
             IN /\ Len(encoding.variables) >= Len(recorded)
                /\ SubSeq(encoding.variables, 1, Len(recorded)) = recorded
                /\ (Index(request.value, 0).t = "object"
                      /\ Index(request.value, 1).t = "number") =>
                        /\ result.ok
                        /\ encoding.variables = recorded

\* the args map of getUser has no entry toString, and the error is not
\* UnknownArgument
C6_Witness ==
    /\ TupleEncoded
    /\ request.field = "getUser"
    /\ Index(request.value, 0) = Obj(<< <<"toString", Num(7)>> >>)
    /\ FirstUnknownArgument(Descriptor.args[1]) = "toString"
    /\ result.err = Err("TypeError", "toString")
    /\ encoding = request.before

----------------------------------------------------------------------------
(* C7.  decodeObject called with a response object that has a key without  *)
(* a field descriptor in the codec.                                        *)

ObjectDecoded == pc = "decodeObject" /\ value.t = "object"

\* the positions of the response's keys that the codec has no descriptor for
UnknownKeys == {i \in 1..Len(value.e) : value.e[i][1] \notin DOMAIN Codecs[codec]}

FirstUnknownKey == CHOOSE i \in UnknownKeys : \A j \in UnknownKeys : i <= j

\* the decoders of the keys ahead of position i all return
DecodableBefore(i) ==
    \A j \in 1..(i - 1) :
        ApplyDecoder(Codecs[codec][value.e[j][1]].decode, value.e[j][2]).err = NoError

(* C7 as stated: decodeObject fails with MissingDecoder naming such a key, *)
(* wherever the key stands and whether or not the other keys decode.       *)
C7_MissingDecoderAlways ==
    (ObjectDecoded /\ UnknownKeys # {}) =>
        /\ decoded.err.kind = "MissingDecoder"
        /\ \E i \in UnknownKeys : decoded.err.key = value.e[i][1]

(* C7, amended: decodeObject never returns for such a response; keys are   *)
(* decoded in the order of the response, so the error is MissingDecoder,   *)
(* naming the first key without a descriptor, when the decoders of the     *)
(* keys ahead of it return, and otherwise the error of the first of those  *)
(* decoders that fails.                                                    *)
C7_MissingDecoderFirst ==
    (ObjectDecoded /\ UnknownKeys # {}) =>
        /\ decoded.err # NoError
        /\ decoded.value = Undefined
        /\ DecodableBefore(FirstUnknownKey) =>
              decoded.err = Err("MissingDecoder", value.e[FirstUnknownKey][1])
        /\ ~DecodableBefore(FirstUnknownKey) =>
              \E j \in 1..(FirstUnknownKey - 1) :
                  /\ DecodableBefore(j)
                  /\ decoded.err =
                        ApplyDecoder(Codecs[codec][value.e[j][1]].decode,
                                     value.e[j][2]).err

C7_Witness ==
    /\ ObjectDecoded
    /\ codec = "Query"
    /\ Len(value.e) = 2
    /\ value.e[1] = <<"version", Str("1.0")>>
    /\ value.e[2][1] = "extraField"
    /\ decoded.err = Err("MissingDecoder", "extraField")

----------------------------------------------------------------------------
(* C8.  Response keys the codec does not know.                             *)

\* the keys of a wire object, in order
KeysOf(v) == [i \in 1..Len(v.e) |-> v.e[i][1]]

(* C8 as stated: a response object with a key absent from the codec, its   *)
(* other keys being decodable, is decoded successfully, and the result     *)
(* holds the known keys only.                                              *)
C8_UnknownKeysIgnored ==
    (/\ ObjectDecoded
     /\ UnknownKeys # {}
     /\ \A i \in (1..Len(value.e)) \ UnknownKeys :
           ApplyDecoder(Codecs[codec][value.e[i][1]].decode, value.e[i][2]).err
               = NoError) =>
        /\ decoded.err = NoError
        /\ KeysOf(decoded.value) =
               SelectSeq(KeysOf(value), LAMBDA k : k \in DOMAIN Codecs[codec])

(* C8, amended: decoding requires the codec to know every key of the       *)
(* response.  Whenever decodeObject returns, every key of the response has *)
(* a descriptor in the codec and the result has exactly the keys of the    *)
(* response, in order; no key is ever ignored.                             *)
C8_EveryKeyKnown ==
    (ObjectDecoded /\ decoded.err = NoError) =>
        /\ UnknownKeys = {}
        /\ decoded.value.t = "object"
        /\ KeysOf(decoded.value) = KeysOf(value)

C8_Witness ==
    /\ ObjectDecoded
    /\ codec = "User"
    /\ KeysOf(value) = <<"name", "extraField">>
    /\ ApplyDecoder(Codecs[codec]["name"].decode, value.e[1][2]).err = NoError
    /\ decoded.err = Err("MissingDecoder", "extraField")
    /\ decoded.value = Undefined

----------------------------------------------------------------------------
(* C9.  A response that lacks a key the request selected and the codec     *)
(* defines, in query(request) of the generated client.                     *)

\* query has encoded and sent the request and the answer carries data
Received == pc = "query" /\ result.ok /\ value # Undefined

\* the root fields the request selected, the codec defines and the response
\* object does not hold
MissingRequested ==
    {i \in 1..Len(request.e) :
        /\ request.e[i][1] \in DOMAIN Codecs[codec]
        /\ value.t = "object"
        /\ \A j \in 1..Len(value.e) : value.e[j][1] # request.e[i][1]}

RECURSIVE Conforms(_, _)
\* the wire value v has the shape the decoder d is composed for
Conforms(d, v) ==
    CASE d.k = "scalar" -> v.t \in {"string", "number", "boolean"}
      [] d.k = "null" -> v.t = "null" \/ Conforms(d.of, v)
      [] d.k = "list" ->
            v.t = "array" /\ \A i \in 1..Len(v.e) : Conforms(d.of, v.e[i])
      [] d.k = "object" ->
            /\ v.t = "object"
            /\ \A i \in 1..Len(v.e) :
                  /\ v.e[i][1] \in DOMAIN Codecs[d.c]
                  /\ Conforms(Codecs[d.c][v.e[i][1]].decode, v.e[i][2])

(* C9 as stated: when the response lacks a requested key that the codec    *)
(* defines, decoding fails.                                                *)
C9_MissingRequestedKeyFails ==
    (Received /\ MissingRequested # {}) => decoded.err # NoError

(* C9, amended: decoding reads the response and the codec, never the       *)
(* request.  A response object whose keys all have a descriptor and whose  *)
(* values have the shape of their decoders is decoded successfully into    *)
(* an object with exactly the keys of the response; a requested key that   *)
(* the response lacks is absent from the result and is no failure.         *)
C9_OnlyResponseKeysDecoded ==
    (Received /\ Conforms(DObject(codec), value)) =>
        /\ decoded.err = NoError
        /\ decoded.value.t = "object"
        /\ KeysOf(decoded.value) = KeysOf(value)
        /\ \A i \in MissingRequested :
              \A j \in 1..Len(decoded.value.e) :
                  decoded.value.e[j][1] # request.e[i][1]

C9_Witness ==
    /\ Received
    /\ KeysOf(request) = <<"version", "me">>
    /\ value = Obj(<< <<"version", Str("1.0")>> >>)
    /\ MissingRequested # {}
    /\ decoded.err = NoError
    /\ decoded.value = Obj(<< <<"version", Str("1.0")>> >>)

----------------------------------------------------------------------------
(* C10.  decodeObject returns only for a non-null keyed structure; for     *)
(* null, undefined, a string, a number, a boolean or a sequence it fails   *)
(* with ExpectedObject and returns nothing, for any codec.                 *)

C10_ExpectedObjectOtherwise ==
    pc = "decodeObject" =>
        /\ decoded.err = NoError => value.t = "object"
        /\ value.t # "object" =>
              /\ decoded.err.kind = "ExpectedObject"
              /\ decoded.value = Undefined

----------------------------------------------------------------------------
(* C11.  A field decoded as decodeNull(v, x => decodeList(x, e =>          *)
(* decodeObject(e, sub))): null and undefined decode to null, [] to [], a  *)
(* sequence of n objects to the sequence of the n decodeObject results in  *)
(* the same order (the first element that fails makes the call fail with   *)
(* its error), and any other value fails with ExpectedArray.               *)

NullableListDecoded ==
    /\ pc = "decodeField"
    /\ Codecs[codec][request.field].decode.k = "null"
    /\ Codecs[codec][request.field].decode.of.k = "list"
    /\ Codecs[codec][request.field].decode.of.of.k = "object"

\* decodeObject of element i with the sub-codec of the field
ElementDecoded(i) ==
    decodeObject(value.e[i], Codecs[Codecs[codec][request.field].decode.of.of.c])

\* the elements whose decodeObject fails
FailingElements == {i \in 1..Len(value.e) : ElementDecoded(i).err # NoError}

C11_NullableListOfObject ==
    NullableListDecoded =>
        IF value.t \in {"null", "undefined"}
        THEN decoded = Value(Null)
        ELSE IF value.t # "array"
        THEN decoded = Failed("ExpectedArray", "")
        ELSE IF FailingElements = {}
        THEN /\ decoded.err = NoError
             /\ decoded.value.t = "array"
             /\ Len(decoded.value.e) = Len(value.e)
             /\ \A i \in 1..Len(value.e) :
                   decoded.value.e[i] = ElementDecoded(i).value
        ELSE \E i \in FailingElements :
                /\ \A j \in FailingElements : i <= j
                /\ decoded = Failed(ElementDecoded(i).err.kind,
                                    ElementDecoded(i).err.key)

\* { "toString": "x" } is no sequence, and the error is not ExpectedArray
C11_Witness ==
    /\ NullableListDecoded
    /\ value = Obj(<< <<"toString", Str("x")>> >>)
    /\ decoded = Failed("TypeError", "")

----------------------------------------------------------------------------
(* C12.  Encode and decode are fail-fast and give no partial result.  In   *)
(* query(request), mutation(request) and subscription(request, ...): when  *)
(* encodeField fails for some root field of the selection, encodeRequest   *)
(* fails, returns no query text and no variable mapping, whatever          *)
(* variables the instance had allocated, and nothing is sent, decoded or   *)
(* handed to onReceived; when a key of the response has no decoder or its  *)
(* decoder fails, at any depth, decodeObject fails and returns no object,  *)
(* and onReceived gets only objects that were decoded whole.               *)

\* the root fields of the selection that encodeField fails for
FailingFields ==
    {i \in 1..Len(request.e) :
        \/ Get(Codecs[codec], request.e[i][1]) = Undefined
        \/ encodeField(NewGraphQLRequest, request.e[i][1], request.e[i][2],
                       Get(Codecs[codec], request.e[i][1])).err # NoError}

\* the keys of the response object that have no decoder or whose decoder fails
FailingKeys ==
    {i \in 1..Len(value.e) :
        \/ value.e[i][1] \notin DOMAIN Codecs[codec]
        \/ ApplyDecoder(Codecs[codec][value.e[i][1]].decode, value.e[i][2]).err
               # NoError}

C12_FailFast ==
    pc \in {"awaiting", "listening", "query", "mutation", "subscription"} =>
        /\ result.ok <=> FailingFields = {}
        /\ result.ok <=> result.err = NoError
        /\ ~result.ok =>
              /\ result.query = "" /\ result.variables = Undefined
              /\ pc = op /\ decoded = NoDecoded /\ value = Undefined
              /\ delivered = <<>>
        /\ (pc \notin {"awaiting", "listening"} /\ value.t = "object") =>
              (decoded.err = NoError <=> FailingKeys = {})
        /\ decoded.err # NoError => decoded.value = Undefined
        /\ \A i \in 1..Len(delivered) :
              /\ delivered[i].t = "object"
              /\ pc = "listening" /\ i = Len(delivered) =>
                    delivered[i] = decoded.value

\* an encode that failed after a sibling had allocated a variable
C12_Witness ==
    /\ pc = "query"
    /\ ~result.ok
    /\ Len(request.e) = 2
    /\ FailingFields = {2}
    /\ encoding.variables # <<>>
    /\ result.query = "" /\ result.variables = Undefined

----------------------------------------------------------------------------
(* C13.  Encoding and decoding terminate, also with the cyclic codec       *)
(* graph User -> friend, friends -> User: every traversal that was started *)
(* comes to its end; at every moment the number of nested activations is   *)
(* at most the nesting depth of the selection (of the response) and the    *)
(* sub-codec supplier has been invoked at most once per value nested in    *)
(* it; and the traversal ends with the error, or without, as encodeObject  *)
(* (decodeObject) does.  While a selection is traversed the instance holds *)
(* the first variables of those the whole call records, and at the end it  *)
(* holds them all and the call returns what encodeRequest returns; a       *)
(* traversed response ends with what decodeObjectResponse returns.         *)

RECURSIVE ValueDepth(_)
RECURSIVE MaxOver(_, _)
\* the greatest ValueDepth of the elements s[i] or, with pairs, of the
\* entry values s[i][2]
MaxOver(s, pairs) ==
    IF s = <<>> THEN 0
    ELSE LET d == ValueDepth(IF pairs THEN s[1][2] ELSE s[1])
             m == MaxOver(Tail(s), pairs)
         IN IF d > m THEN d ELSE m

\* nesting depth of a value: 0 for a scalar, one more than its deepest
\* member for an object or an array
ValueDepth(v) ==
    CASE v.t = "object" -> 1 + MaxOver(v.e, TRUE)
      [] v.t = "array" -> 1 + MaxOver(v.e, FALSE)
      [] OTHER -> 0

RECURSIVE NestedValues(_)
RECURSIVE SumOver(_, _)
SumOver(s, pairs) ==
    IF s = <<>> THEN 0
    ELSE NestedValues(IF pairs THEN s[1][2] ELSE s[1]) + SumOver(Tail(s), pairs)

\* how many values are nested in v, v included: objects, arrays, and null,
\* which typeof takes for an object
NestedValues(v) ==
    CASE v.t = "object" -> 1 + SumOver(v.e, TRUE)
      [] v.t = "array" -> 1 + SumOver(v.e, FALSE)
      [] v.t = "null" -> 1
      [] OTHER -> 0

Walking == pc \in {"encoding", "decoding"}

\* a holds the first elements of b
FirstOf(a, b) == Len(a) <= Len(b) /\ SubSeq(b, 1, Len(a)) = a

\* the value the traversal walks
Walked == IF request # Undefined THEN request ELSE value

C13_DepthBounded ==
    (Walking \/ pc = "walked") =>
        /\ Len(walk.stack) <= ValueDepth(Walked)
        /\ walk.invoked <= NestedValues(Walked)
        /\ pc = "walked" =>
              walk.err = IF request # Undefined
                         THEN encodeObject(NewGraphQLRequest, request,
                                           Codecs[codec]).err
                         ELSE decodeObject(value, Codecs[codec]).err
        /\ request # Undefined =>
              /\ FirstOf(encoding.variables,
                         encodeObject(NewGraphQLRequest, request,
                                      Codecs[codec]).st.variables)
              /\ encoding.variableCounter = Len(encoding.variables) + 1
        /\ pc = "walked" /\ request # Undefined =>
              /\ encoding = encodeObject(NewGraphQLRequest, request,
                                         Codecs[codec]).st
              /\ result = Outcome(encodeRequestOn(NewGraphQLRequest, op,
                                                  request, Codecs[codec]))
        /\ pc = "walked" /\ request = Undefined =>
              decoded = decodeObjectResponse(value, Codecs[codec])

C13_Terminates == []C13_DepthBounded /\ (Walking ~> pc = "walked")

\* the cycle has been followed MaxDepth times and the traversal has ended
C13_Witness ==
    /\ pc = "walked"
    /\ request = Obj(<< <<"me", DeepSel(MaxDepth)>> >>)
    /\ walk.invoked = MaxDepth + 1
    /\ walk.err = NoError
    /\ Len(encoding.variables) = MaxDepth
    /\ result.ok

----------------------------------------------------------------------------
(* C14.  Round trip of scalars.                                            *)

BuiltIn == {"ID", "Int", "String", "Boolean", "Float"}

(* C14 as stated: s.decode(s.encode(v)) = v for every scalar definition    *)
(* and every domain value v.                                               *)
C14_RoundTripAll ==
    pc = "scalar" => decoded = Value(request.domain)

(* C14, amended: scalar() returns the pair it is given, and checks         *)
(* nothing; the built-in scalars ID, Int, String, Boolean and Float are    *)
(* identity pairs, so the wire value is the domain value and the round     *)
(* trip gives it back.  For another scalar the round trip holds as far as  *)
(* the pair given to scalar() makes it hold: the LocalDate of the readme   *)
(* sends the date of a moment and decodes the start of that day, which is  *)
(* the moment encoded only when that had no time of day.                   *)
C14_RoundTripBuiltIn ==
    pc = "scalar" =>
        /\ appScalars[request.scalar] \in
              {[decode |-> "input", encode |-> "input"],
               [decode |-> "moment", encode |-> "format"]}
        /\ request.scalar \in BuiltIn =>
              /\ appScalars[request.scalar] =
                    [decode |-> "input", encode |-> "input"]
              /\ value = request.domain
              /\ decoded = Value(request.domain)
        /\ request.scalar = "LocalDate" =>
              /\ value = Str(request.domain.d)
              /\ decoded = Value(MomentAt(request.domain.d, 0))
              /\ (decoded.value = request.domain) <=> (request.domain.h = 0)

C14_Witness ==
    /\ pc = "scalar"
    /\ request.scalar = "Int"
    /\ request.domain = Num(MaxNumber)
    /\ value = Num(MaxNumber)
    /\ decoded = Value(Num(MaxNumber))

----------------------------------------------------------------------------
(* C15.  encodeField classifies the selection value as sentinel, tuple or  *)
(* object, in this order, and the errors follow the classification:        *)
(* MissingSubCodec is raised only for an object, or a tuple whose          *)
(* sub-selection is an object, on a descriptor without sub-codec; a value  *)
(* that is none of the three, such as a string or a boolean, fails with    *)
(* InvalidSelectionShape whether or not the descriptor has a sub-codec.    *)

C15_ErrorsFollowShape ==
    pc = "encodeField" =>
        /\ result.err.kind = "MissingSubCodec" =>
              /\ Descriptor.codec = <<>>
              /\ \/ request.value.t = "object"
                 \/ /\ request.value.t = "array"
                    /\ Index(request.value, 1).t = "object"
        /\ request.value.t \in {"string", "boolean"} =>
              result.err = Err("InvalidSelectionShape", request.field)

----------------------------------------------------------------------------
(* C16.  In a tuple [params, fieldRequest] for a field that has an args    *)
(* map, an argument whose value is null or undefined contributes nothing:  *)
(* its key is not looked up, no variable is allocated and no fragment is   *)
(* emitted for it.  With a sentinel as fieldRequest the text is the field  *)
(* name followed by the fragments `arg: $vN` of the other arguments in     *)
(* parentheses, and the counter has advanced by their number; when no      *)
(* argument remains, text, variables, counter and error are those of       *)
(* encodeField called with fieldRequest alone.                             *)

ArgumentsGiven ==
    /\ TupleEncoded
    /\ Descriptor.args # <<>>
    /\ Index(request.value, 0).t = "object"
    /\ FirstUnknownArgument(Descriptor.args[1]) = ""

\* the fragments of the supplied arguments, numbered from the counter on
Fragments ==
    [i \in 1..Len(SuppliedArguments) |->
        SuppliedArguments[i][1] \o ": $v"
            \o ToString(request.before.variableCounter + i - 1)]

\* encodeField called with the fieldRequest alone, on the same instance
Unargumented ==
    encodeField(request.before, request.field, Index(request.value, 1),
                Descriptor)

C16_NullArgumentsSkipped ==
    ArgumentsGiven =>
        /\ Index(request.value, 1).t = "number" =>
              /\ result.ok
              /\ result.query =
                    IF Fragments = <<>> THEN request.field
                    ELSE request.field \o "(" \o Join(Fragments, ", ") \o ")"
              /\ encoding.variableCounter =
                    request.before.variableCounter + Len(SuppliedArguments)
              /\ Len(encoding.variables) =
                    Len(request.before.variables) + Len(SuppliedArguments)
        /\ (SuppliedArguments = <<>>
              /\ Index(request.value, 1).t \in {"number", "object"}) =>
              /\ result.err = Unargumented.err
              /\ result.query = Unargumented.text
              /\ encoding = Unargumented.st

\* { bogus: null } on friend, which has no argument bogus: nothing is looked
\* up and the field is emitted as friend { name email }
C16_Witness ==
    /\ ArgumentsGiven
    /\ request.field = "friend"
    /\ Index(request.value, 0) = Obj(<< <<"bogus", Null>> >>)
    /\ result.ok
    /\ result.query = "friend { name email }"
    /\ encoding = request.before

----------------------------------------------------------------------------
(* C17.  In every EncodedRequest the declaration header, the body and the  *)
(* variable mapping agree.  With n the number of non-null arguments of the *)
(* selection: the header declares $v1..$vn, each once, in this order, with *)
(* the wire type of the i-th argument in traversal order; the body refers  *)
(* to $vi exactly once, at the i-th argument; the mapping has the keys     *)
(* v1..vn, in this order, with the encoded values; and when n = 0 the      *)
(* header is empty, the query text is `<op> { ... }`, and the mapping is   *)
(* undefined.                                                              *)

RECURSIVE BodyFrom(_, _, _)
RECURSIVE FieldsFrom(_, _, _)
\* the body of a selection that encodes, its arguments numbered from k on:
\* the text, and the number the next argument gets
BodyFrom(sel, c, k) ==
    LET f == FieldsFrom(Entries(sel), c, k)
    IN [text |-> "{ " \o Join(f.texts, " ") \o " }", k |-> f.k]

FieldsFrom(entries, c, k) ==
    IF entries = <<>> THEN [texts |-> <<>>, k |-> k]
    ELSE LET field == entries[1][1]
             v == entries[1][2]
             given == IF IsArray(v) THEN NonNull(Entries(Index(v, 0))) ELSE <<>>
             call == IF given = <<>> THEN field
                     ELSE field \o "("
                          \o Join([i \in 1..Len(given) |->
                                     given[i][1] \o ": $v" \o ToString(k + i - 1)],
                                  ", ")
                          \o ")"
             sub == SubSelection(v)
             inner == IF sub.t = "number" THEN [text |-> "", k |-> k + Len(given)]
                      ELSE BodyFrom(sub, SubCodec(c[field]), k + Len(given))
             rest == FieldsFrom(Tail(entries), c, inner.k)
         IN [texts |-> <<IF sub.t = "number" THEN call
                         ELSE call \o " " \o inner.text>> \o rest.texts,
             k |-> rest.k]

\* the declarations of the variables, in order
Header(variables) ==
    IF variables = <<>> THEN ""
    ELSE "(" \o Join([i \in 1..Len(variables) |->
                        "$v" \o ToString(i) \o ": " \o variables[i].type], ", ")
             \o ")"

C17_HeaderBodyMappingAgree ==
    (Encoded /\ result.ok) =>
        LET expected == VariablesOfSelection(request, Codecs[codec])
            body == BodyFrom(request, Codecs[codec], 1)
        IN /\ body.k = Len(expected) + 1
           /\ result.query = op \o Header(expected) \o " " \o body.text
           /\ expected = <<>> =>
                 /\ result.variables = Undefined
                 /\ result.query = op \o " " \o body.text
           /\ expected # <<>> =>
                 /\ result.variables.t = "object"
                 /\ result.variables.e =
                       [i \in 1..Len(expected) |->
                           <<"v" \o ToString(i), expected[i].value>>]

\* two fields with arguments, three variables, two wire types
C17_Witness ==
    /\ Encoded /\ result.ok
    /\ op = "mutation"
    /\ result.query =
          "mutation($v1: LocalDate, $v2: Int, $v3: ID) { "
             \o "getUser(since: $v1, id: $v2) { name email } count(id: $v3) }"
    /\ Keys(result.variables) = <<"v1", "v2", "v3">>

----------------------------------------------------------------------------
(* C18.  The encode helpers for input values mirror the decode side.       *)
(* encodeObject(value, encoder) fails with ExpectedObject when value is    *)
(* not a non-null keyed structure (null, undefined, a string, a number, a  *)
(* boolean, a sequence), fails with MissingEncoder when it comes to a key  *)
(* without an entry in encoder, and otherwise returns an object with the   *)
(* keys of value, each mapped through its encoder; encodeList fails with   *)
(* ExpectedArray on a value that is not a sequence and otherwise keeps     *)
(* length and order; encodeNull returns null for null and undefined and    *)
(* otherwise applies the inner encoder.                                    *)

InputEncoded(k) == pc = "encodeInput" /\ request.encoder.k = k

\* the positions of the keys of value that have no entry in the encoder
KeysWithoutEncoder ==
    {i \in 1..Len(value.e) :
        value.e[i][1] \notin DOMAIN Encoders[request.encoder.c]}

\* the encoder of the key at position i returns
KeyEncodes(i) ==
    ApplyEncoder(Encoders[request.encoder.c][value.e[i][1]], value.e[i][2]).err
        = NoError

C18_ObjectHelper ==
    InputEncoded("object") =>
        /\ value.t # "object" => decoded = Failed("ExpectedObject", "")
        /\ (value.t = "object" /\ KeysWithoutEncoder # {}) =>
              /\ decoded.err # NoError
              /\ \A i \in KeysWithoutEncoder :
                    (\A j \in 1..(i - 1) :
                        j \notin KeysWithoutEncoder /\ KeyEncodes(j)) =>
                        decoded = Failed("MissingEncoder", value.e[i][1])
        /\ decoded.err = NoError =>
              /\ KeysWithoutEncoder = {}
              /\ decoded.value.t = "object"
              /\ Len(decoded.value.e) = Len(value.e)
              /\ \A i \in 1..Len(value.e) :
                    /\ decoded.value.e[i][1] = value.e[i][1]
                    /\ decoded.value.e[i][2] =
                          ApplyEncoder(Encoders[request.encoder.c][value.e[i][1]],
                                       value.e[i][2]).value

C18_ListHelper ==
    InputEncoded("list") =>
        /\ value.t # "array" => decoded = Failed("ExpectedArray", "")
        /\ decoded.err = NoError =>
              /\ decoded.value.t = "array"
              /\ Len(decoded.value.e) = Len(value.e)
              /\ \A i \in 1..Len(value.e) :
                    decoded.value.e[i] =
                        ApplyEncoder(request.encoder.of, value.e[i]).value

C18_NullHelper ==
    InputEncoded("null") =>
        IF value.t \in {"null", "undefined"} THEN decoded = Value(Null)
        ELSE decoded = ApplyEncoder(request.encoder.of, value)

C18_HelpersMirrorDecode == C18_ObjectHelper /\ C18_ListHelper /\ C18_NullHelper

=============================================================================
